---- MODULE Spec2Model ----
(***************************************************************************)
(* Verification model of the DSP kernel of signal_equalizer:               *)
(*   backend/app/dsp/fft.py   (fft_fast, ifft_fast and their cores)        *)
(*   backend/app/dsp/stft.py  (hann_window, compute_stft_frames,           *)
(*                             inverse_stft)                               *)
(*                                                                         *)
(* Numbers.  np.float64 values are modelled by exact rationals <<n, d>>    *)
(* (d > 0, lowest terms) and np.complex128 values by pairs <<re, im>> of   *)
(* rationals.  The twiddle base exp(-2*pi*i/length) is exact for the       *)
(* lengths 1, 2 and 4 (1, -1, -i), so transforms of length up to 4 are     *)
(* computed exactly; rounding error of the floating-point build is not     *)
(* modelled.  Arrays are functions over 0..N-1, as in the source.          *)
(***************************************************************************)
EXTENDS Integers, Sequences, FiniteSets, TLC

VARIABLES
  x, fftRes, ifftRes, rtRes,            \* caller of fft_fast / ifft_fast
  lin,                                  \* linearity harness of fft_fast
  stft,                                 \* one call of compute_stft_frames
  istft,                                \* one call of inverse_stft
  sgram,                                \* one call of compute_spectrogram
  hannRes,                              \* one call of hann_window
  http,                                 \* one request to the DSP endpoints
  mem,                                  \* the arrays a caller of the kernel holds
  par,                                  \* overlap-add rows run by workers
  core,                                 \* one call of _fft_fast_impl, by steps
  dmx,                                  \* one call of separate_sources
  chk,                                  \* one call of calculate_chunks
  trl                                   \* torch.load and DPRNNService()

\* the variables of the later specifications
more == <<sgram, hannRes, http, mem, par>>

\* the variables of the step-level kernel and of the services
rest == <<core, dmx, chk, trl>>

vars == <<x, fftRes, ifftRes, rtRes, lin, stft, istft, more, rest>>

(***************************************************************************)
(* Bounds of the model.                                                    *)
(***************************************************************************)
MaxLen == 6        \* longest array handed to fft_fast / ifft_fast
LinMaxLen == 4     \* longest arrays of the linearity harness
MaxFft == 4        \* largest fft_size / frame width
MaxWin == 5        \* largest window_size
MaxHop == 3        \* largest hop_size
MaxSig == 6        \* longest signal handed to compute_stft_frames
MaxRows == 3       \* most rows of a frame matrix handed to inverse_stft

(***************************************************************************)
(* Exact arithmetic standing for float64 / complex128.                     *)
(***************************************************************************)
Abs(n) == IF n < 0 THEN -n ELSE n

RECURSIVE Gcd(_, _)
Gcd(a, b) == IF b = 0 THEN a ELSE Gcd(b, a % b)

\* the rational n/d in lowest terms with a positive denominator (d # 0)
Rat(n, d) ==
  LET g == Gcd(Abs(n), Abs(d))
      s == IF d < 0 THEN -1 ELSE 1
  IN  <<(s * n) \div g, (s * d) \div g>>

R(n) == <<n, 1>>
RAdd(p, q) == Rat(p[1] * q[2] + q[1] * p[2], p[2] * q[2])
RSub(p, q) == Rat(p[1] * q[2] - q[1] * p[2], p[2] * q[2])
RMul(p, q) == Rat(p[1] * q[1], p[2] * q[2])
RDiv(p, q) == Rat(p[1] * q[2], p[2] * q[1])
RNeg(p) == <<-p[1], p[2]>>
RLess(p, q) == p[1] * q[2] < q[1] * p[2]

C(re, im) == <<R(re), R(im)>>
CZero == C(0, 0)
COne == C(1, 0)
CAdd(u, v) == <<RAdd(u[1], v[1]), RAdd(u[2], v[2])>>
CSub(u, v) == <<RSub(u[1], v[1]), RSub(u[2], v[2])>>
CMul(u, v) == <<RSub(RMul(u[1], v[1]), RMul(u[2], v[2])),
                RAdd(RMul(u[1], v[2]), RMul(u[2], v[1]))>>
CConj(u) == <<u[1], RNeg(u[2])>>
CDivInt(u, n) == <<RDiv(u[1], R(n)), RDiv(u[2], R(n))>>
CReal(u) == u[1]
CFromReal(r) == <<r, R(0)>>

\* len(x) / arr.size of an array modelled as a function over 0..N-1
Size(a) == Cardinality(DOMAIN a)
EmptyArr == [k \in {} |-> CZero]

(***************************************************************************)
(* fft.py                                                                  *)
(***************************************************************************)
RECURSIVE BitAnd(_, _)
BitAnd(a, b) ==
  IF a = 0 \/ b = 0 THEN 0
  ELSE (a % 2) * (b % 2) + 2 * BitAnd(a \div 2, b \div 2)

\* faulty variant: the test "value > 0" is dropped
IsPowerOfTwoNoSign(value) == BitAnd(value, value - 1) = 0

\* _is_power_of_two: value > 0 and (value & (value - 1)) == 0
IsPowerOfTwo(value) == value > 0 /\ BitAnd(value, value - 1) = 0

\* faulty variant: the inverse twiddle exp(+2*pi*i/length)
WlenInverse(length) ==
  CASE length = 1 -> C(1, 0)
    [] length = 2 -> C(-1, 0)
    [] length = 4 -> C(0, 1)

\* wlen = np.exp(-2j * np.pi / length), exact for length 1, 2, 4
Wlen(length) ==
  CASE length = 1 -> C(1, 0)
    [] length = 2 -> C(-1, 0)
    [] length = 4 -> C(0, -1)

\* while j >= bit and bit > 0: j -= bit; bit >>= 1     (returns <<j, bit>>)
RECURSIVE BitWhile(_, _)
BitWhile(j, bit) ==
  IF j >= bit /\ bit > 0 THEN BitWhile(j - bit, bit \div 2) ELSE <<j, bit>>

\* for i in range(1, N): ... swap X[i], X[j] when i < j
RECURSIVE BitReverseLoop(_, _, _, _)
BitReverseLoop(X, i, j, N) ==
  IF i >= N THEN X
  ELSE LET jb == BitWhile(j, N \div 2)
           j2 == jb[1] + jb[2]
       IN  BitReverseLoop(
             IF i < j2 THEN [X EXCEPT ![i] = X[j2], ![j2] = X[i]] ELSE X,
             i + 1, j2, N)

\* faulty variant: the twiddle is not advanced, "w *= wlen" is missing
RECURSIVE ButterflyPairsFixedTwiddle(_, _, _, _, _, _)
ButterflyPairsFixedTwiddle(X, i, j, half, w, wlen) ==
  IF j >= half THEN X
  ELSE LET u == X[i + j]
           v == CMul(w, X[i + j + half])
       IN  ButterflyPairsFixedTwiddle(
             [X EXCEPT ![i + j] = CAdd(u, v), ![i + j + half] = CSub(u, v)],
             i, j + 1, half, w, wlen)

\* for j in range(half): the butterflies of one block
RECURSIVE ButterflyPairs(_, _, _, _, _, _)
ButterflyPairs(X, i, j, half, w, wlen) ==
  IF j >= half THEN X
  ELSE LET u == X[i + j]
           v == CMul(w, X[i + j + half])
       IN  ButterflyPairs(
             [X EXCEPT ![i + j] = CAdd(u, v), ![i + j + half] = CSub(u, v)],
             i, j + 1, half, CMul(w, wlen), wlen)

\* for i in range(0, N, length): the blocks of one stage
RECURSIVE ButterflyBlocks(_, _, _, _)
ButterflyBlocks(X, i, length, N) ==
  IF i >= N THEN X
  ELSE ButterflyBlocks(
         ButterflyPairs(X, i, 0, length \div 2, COne, Wlen(length)),
         i + length, length, N)

\* while length <= N: ...; length *= 2
RECURSIVE ButterflyStages(_, _, _)
ButterflyStages(X, length, N) ==
  IF length > N THEN X
  ELSE ButterflyStages(ButterflyBlocks(X, 0, length, N), length * 2, N)

\* _fft_fast_impl
FftFastImpl(a) ==
  LET N == Size(a)
  IN  ButterflyStages(BitReverseLoop(a, 1, 0, N), 2, N)

\* faulty variant: the division by N is forgotten
IfftFastImplNoScale(X) ==
  LET Xconj == [k \in DOMAIN X |-> CConj(X[k])]
      xconj == FftFastImpl(Xconj)
  IN  [k \in DOMAIN X |-> CConj(xconj[k])]

\* _ifft_fast_impl
IfftFastImpl(X) ==
  LET N == Size(X)
      Xconj == [k \in DOMAIN X |-> CConj(X[k])]
      xconj == FftFastImpl(Xconj)
  IN  [k \in DOMAIN X |-> CDivInt(CConj(xconj[k]), N)]

\* the outcome of a call: a returned array or a raised ValueError
Returned(val) == [st |-> "returned", err |-> "", val |-> val]
Raised(msg) == [st |-> "raised", err |-> msg, val |-> EmptyArr]
NotCalled == [st |-> "none", err |-> "", val |-> EmptyArr]

\* faulty variant: the input is converted with a real dtype, dropping imaginary parts
FftFastRealDtype(a) ==
  IF ~IsPowerOfTwo(Size(a))
  THEN Raised("fft_fast requires input length to be a power of two")
  ELSE Returned(FftFastImpl([k \in DOMAIN a |-> CFromReal(CReal(a[k]))]))

\* fft_fast
FftFast(a) ==
  IF ~IsPowerOfTwo(Size(a))
  THEN Raised("fft_fast requires input length to be a power of two")
  ELSE Returned(FftFastImpl(a))

\* ifft_fast
IfftFast(X) ==
  IF ~IsPowerOfTwo(Size(X))
  THEN Raised("ifft_fast requires input length to be a power of two")
  ELSE Returned(IfftFastImpl(X))

(***************************************************************************)
(* stft.py                                                                 *)
(***************************************************************************)
\* np.cos(2*pi*i/m) for the denominators m whose cosines are rational
CosTurn(i, m) ==
  LET r == i % m
  IN  CASE m = 1 -> R(1)
        [] m = 2 -> IF r = 0 THEN R(1) ELSE R(-1)
        [] m = 3 -> IF r = 0 THEN R(1) ELSE Rat(-1, 2)
        [] m = 4 -> IF r = 0 THEN R(1) ELSE IF r = 2 THEN R(-1) ELSE R(0)
        [] m = 6 -> IF r = 0 THEN R(1)
                    ELSE IF r = 3 THEN R(-1)
                    ELSE IF r \in {1, 5} THEN Rat(1, 2) ELSE Rat(-1, 2)

\* hann_window: the ValueError it raises ("" when it raises none)
HannWindowErr(window_size) ==
  IF window_size <= 1 THEN "window_size must be greater than 1" ELSE ""

\* faulty variant: the cosine is added, 0.5 * (1 + cos(...))
HannWindowRaised(window_size) ==
  [i \in 0 .. window_size - 1 |->
     RMul(Rat(1, 2), RAdd(R(1), CosTurn(i, window_size - 1)))]

\* hann_window: 0.5 * (1 - cos(2*pi*i / (window_size - 1)))
HannWindow(window_size) ==
  [i \in 0 .. window_size - 1 |->
     RMul(Rat(1, 2), RSub(R(1), CosTurn(i, window_size - 1)))]

\* np.log2(fft_size).is_integer(): log2 is nan or -inf for fft_size <= 0 and
\* an integer exactly for the powers of two (of the sizes modelled here)
Log2IsInteger(v) == v > 0 /\ \E k \in 0 .. v : 2 ^ k = v

\* faulty variant: the power-of-two test of fft_size is missing
ValidateFftParamsNoPow2(window_size, hop_size, fft_size) ==
  IF fft_size < window_size THEN "fft_size must be >= window_size"
  ELSE IF hop_size <= 0 THEN "hop_size must be positive"
  ELSE ""

\* faulty variant: hop_size is checked before fft_size >= window_size
ValidateFftParamsHopFirst(window_size, hop_size, fft_size) ==
  IF hop_size <= 0 THEN "hop_size must be positive"
  ELSE IF fft_size < window_size THEN "fft_size must be >= window_size"
  ELSE IF ~Log2IsInteger(fft_size)
  THEN "fft_size must be a power of two for fft_fast"
  ELSE ""

\* _validate_fft_params: the ValueError it raises ("" when it raises none)
ValidateFftParams(window_size, hop_size, fft_size) ==
  IF fft_size < window_size THEN "fft_size must be >= window_size"
  ELSE IF hop_size <= 0 THEN "hop_size must be positive"
  ELSE IF ~Log2IsInteger(fft_size)
  THEN "fft_size must be a power of two for fft_fast"
  ELSE ""

\* a[lo:hi] for 0 <= lo: Python clips the slice at the end of the array
Slice(a, lo, hi) ==
  LET top == IF hi < Size(a) THEN hi ELSE Size(a)
      n == IF top > lo THEN top - lo ELSE 0
  IN  [k \in 0 .. n - 1 |-> a[lo + k]]

\* whether numpy can combine operands of lengths m and n elementwise
Broadcasts(m, n) == m = n \/ m = 1 \/ n = 1

\* u * v on real arrays, with numpy's broadcasting of a length-1 operand
MulBroadcast(u, v) ==
  LET n == IF Size(u) = 1 THEN Size(v) ELSE Size(u)
  IN  [k \in 0 .. n - 1 |->
         RMul(IF Size(u) = 1 THEN u[0] ELSE u[k],
              IF Size(v) = 1 THEN v[0] ELSE v[k])]

\* faulty variant: the frame count is rounded up instead of down
NumFramesCeil(size, window_size, hop_size) ==
  1 + (size - window_size + hop_size - 1) \div hop_size

\* num_frames = 1 + (samples.size - window_size) // hop_size
NumFrames(size, window_size, hop_size) ==
  1 + (size - window_size) \div hop_size

\* faulty variant: the segment is not weighted by the window
StftPaddedNoWindow(segment, hann, window_size, fft_size) ==
  [k \in 0 .. fft_size - 1 |->
     IF k < window_size THEN CFromReal(segment[k]) ELSE CZero]

\* padded = np.zeros(fft_size); padded[:window_size] = segment * hann
StftPadded(segment, hann, window_size, fft_size) ==
  LET prod == MulBroadcast(segment, hann)
  IN  [k \in 0 .. fft_size - 1 |->
         IF k < window_size THEN CFromReal(prod[k]) ELSE CZero]

\* np.zeros((rows, cols), dtype=np.complex128)
ZeroMatrix(rows, cols) == [r \in 0 .. rows - 1 |-> [c \in 0 .. cols - 1 |-> CZero]]
NoFrames == [r \in {} |-> EmptyArr]

BroadcastError == "operands could not be broadcast together"

\* the arguments of compute_stft_frames and its locals; the signal is 1-D
\* float64 (an array of more dimensions is flattened first, lines 38-39,
\* which keeps its samples and their count)

StftCall(signal, window_size, hop_size, fft_size) ==
  [pc |-> "call", signal |-> signal, window_size |-> window_size,
   hop_size |-> hop_size, fft_size |-> fft_size, err |-> "",
   hann |-> EmptyArr, num_frames |-> 0, frames |-> NoFrames,
   frame_idx |-> 0, ffts |-> 0]

\* compute_stft_frames, lines 35-45: validation and allocation
StftEnterStep(s) ==
  LET v == ValidateFftParams(s.window_size, s.hop_size, s.fft_size)
      n == NumFrames(Size(s.signal), s.window_size, s.hop_size)
  IN  IF v # "" THEN [s EXCEPT !.pc = "raised", !.err = v]
      ELSE IF Size(s.signal) < s.window_size
      THEN [s EXCEPT !.pc = "raised",
                     !.err = "signal must be at least as long as window_size"]
      ELSE IF HannWindowErr(s.window_size) # ""
      THEN [s EXCEPT !.pc = "raised", !.err = HannWindowErr(s.window_size)]
      ELSE [s EXCEPT !.pc = "loop",
                     !.hann = HannWindow(s.window_size),
                     !.num_frames = n,
                     !.frames = ZeroMatrix(n, s.fft_size)]

\* compute_stft_frames, lines 47-52: one iteration of the frame loop
StftFrameStep(s) ==
  LET start == s.frame_idx * s.hop_size
      segment == Slice(s.signal, start, start + s.window_size)
      padded == StftPadded(segment, s.hann, s.window_size, s.fft_size)
      row == FftFast(padded)
  IN  IF ~Broadcasts(Size(segment), Size(s.hann))
      THEN [s EXCEPT !.pc = "raised", !.err = BroadcastError]
      ELSE IF row.st = "raised"
      THEN [s EXCEPT !.pc = "raised", !.err = row.err, !.ffts = @ + 1]
      ELSE [s EXCEPT !.frames[s.frame_idx] = row.val,
                     !.frame_idx = @ + 1,
                     !.ffts = @ + 1]

\* np.zeros(n, dtype=np.float64)
ZeroReal(n) == [k \in 0 .. n - 1 |-> R(0)]

\* buf[start:end] += vals is accepted when vals has the length of the
\* (clipped) slice, or length 1
InPlaceOk(buf, start, end, vals) ==
  Size(vals) = Size(Slice(buf, start, end)) \/ Size(vals) = 1

\* buf[start:end] += vals
AddAt(buf, start, end, vals) ==
  [n \in DOMAIN buf |->
     IF start <= n /\ n < end
     THEN RAdd(buf[n], IF Size(vals) = 1 THEN vals[0] ELSE vals[n - start])
     ELSE buf[n]]

\* faulty variant: one hop too many in the output length
OutputLengthExtraHop(num_frames, window_size, hop_size) ==
  num_frames * hop_size + window_size

\* output_length = (num_frames - 1) * hop_size + window_size
OutputLength(num_frames, window_size, hop_size) ==
  (num_frames - 1) * hop_size + window_size

\* window_accum > 1e-12 on a rational n/d: n * 10^12 > d
AboveEpsilon(p) == (p[2] \div 1000000) \div 1000000 < p[1]

\* non_zero = window_accum > 1e-12; output[non_zero] /= window_accum[non_zero]
Normalize(output, window_accum) ==
  [n \in DOMAIN output |->
     IF AboveEpsilon(window_accum[n])
     THEN RDiv(output[n], window_accum[n])
     ELSE output[n]]

\* faulty variant: the synthesis window is applied to the inverse transform
OverlapTermWindowed(time_domain, hann, window_size) ==
  MulBroadcast([k \in DOMAIN Slice(time_domain, 0, window_size) |->
                  CReal(time_domain[k])], hann)

\* np.real(time_domain[:window_size])
OverlapTerm(time_domain, hann, window_size) ==
  [k \in DOMAIN Slice(time_domain, 0, window_size) |-> CReal(time_domain[k])]

IstftCall(ndim, rows, cols, frames, window_size, hop_size) ==
  [pc |-> "call", ndim |-> ndim, rows |-> rows, cols |-> cols,
   frames |-> frames, window_size |-> window_size, hop_size |-> hop_size,
   err |-> "", hann |-> EmptyArr, output_length |-> 0, output |-> EmptyArr,
   window_accum |-> EmptyArr, frame_idx |-> 0, start |-> 0, end |-> 0,
   iffts |-> 0]

\* faulty variant: inverse_stft checks the triple with a copy of the
\* validator that has lost the power-of-two test
IstftEnterStepOwnChecks(s) ==
  LET v == ValidateFftParamsNoPow2(s.window_size, s.hop_size, s.cols)
      n == (s.rows - 1) * s.hop_size + s.window_size
  IN  IF s.ndim # 2
      THEN [s EXCEPT !.pc = "raised", !.err = "frames must be a 2D array"]
      ELSE IF v # "" THEN [s EXCEPT !.pc = "raised", !.err = v]
      ELSE IF HannWindowErr(s.window_size) # ""
      THEN [s EXCEPT !.pc = "raised", !.err = HannWindowErr(s.window_size)]
      ELSE IF n < 0
      THEN [s EXCEPT !.pc = "raised", !.output_length = n,
                     !.err = "negative dimensions are not allowed"]
      ELSE [s EXCEPT !.pc = "loop",
                     !.hann = HannWindow(s.window_size),
                     !.output_length = n,
                     !.output = ZeroReal(n),
                     !.window_accum = ZeroReal(n)]

\* inverse_stft, lines 63-71: validation and allocation
IstftEnterStep(s) ==
  LET v == ValidateFftParams(s.window_size, s.hop_size, s.cols)
      n == OutputLength(s.rows, s.window_size, s.hop_size)
  IN  IF s.ndim # 2
      THEN [s EXCEPT !.pc = "raised", !.err = "frames must be a 2D array"]
      ELSE IF v # "" THEN [s EXCEPT !.pc = "raised", !.err = v]
      ELSE IF HannWindowErr(s.window_size) # ""
      THEN [s EXCEPT !.pc = "raised", !.err = HannWindowErr(s.window_size)]
      ELSE IF n < 0
      THEN [s EXCEPT !.pc = "raised", !.output_length = n,
                     !.err = "negative dimensions are not allowed"]
      ELSE [s EXCEPT !.pc = "loop",
                     !.hann = HannWindow(s.window_size),
                     !.output_length = n,
                     !.output = ZeroReal(n),
                     !.window_accum = ZeroReal(n)]

\* inverse_stft, lines 73-78: one iteration of the overlap-add loop
IstftRowStep(s) ==
  LET td == IfftFast(s.frames[s.frame_idx])
      start == s.frame_idx * s.hop_size
      end == start + s.window_size
      term == OverlapTerm(td.val, s.hann, s.window_size)
  IN  IF td.st = "raised"
      THEN [s EXCEPT !.pc = "raised", !.err = td.err, !.iffts = @ + 1]
      ELSE IF ~InPlaceOk(s.output, start, end, term)
      THEN [s EXCEPT !.pc = "raised", !.err = BroadcastError,
                     !.start = start, !.end = end, !.iffts = @ + 1]
      ELSE IF ~InPlaceOk(s.window_accum, start, end, s.hann)
      THEN [s EXCEPT !.pc = "raised", !.err = BroadcastError,
                     !.output = AddAt(s.output, start, end, term),
                     !.start = start, !.end = end, !.iffts = @ + 1]
      ELSE [s EXCEPT !.output = AddAt(s.output, start, end, term),
                     !.window_accum = AddAt(s.window_accum, start, end, s.hann),
                     !.start = start, !.end = end,
                     !.frame_idx = @ + 1,
                     !.iffts = @ + 1]

\* inverse_stft, lines 80-82: normalization and return
IstftReturnStep(s) ==
  [s EXCEPT !.pc = "returned", !.output = Normalize(s.output, s.window_accum)]

(***************************************************************************)
(* stft.py: compute_spectrogram.                                           *)
(***************************************************************************)
\* np.abs of a complex128: the modulus sqrt(re^2 + im^2), kept as the exact
\* radicand under a root sign
Modulus(c) == <<"sqrt", RAdd(RMul(c[1], c[1]), RMul(c[2], c[2]))>>

\* faulty variant: all fft_size columns are kept
SpectrogramColumnsAll(fft_size) == fft_size

\* fft_size // 2, the stop of the column slice
SpectrogramColumns(fft_size) == fft_size \div 2

\* np.abs(frames[:, : fft_size // 2])
Magnitudes(frames, fft_size) ==
  [k \in DOMAIN frames |->
     LET row == Slice(frames[k], 0, SpectrogramColumns(fft_size))
     IN  [j \in DOMAIN row |-> Modulus(row[j])]]

\* (np.arange(rows) * hop_size) / float(sample_rate)
Times(rows, hop_size, sample_rate) ==
  [k \in 0 .. rows - 1 |-> Rat(k * hop_size, sample_rate)]

\* np.linspace(start, stop, num, endpoint=False): start + j * step with
\* step = (stop - start) / num
Linspace(start, stop, num) ==
  [j \in 0 .. num - 1 |->
     RAdd(start, RMul(R(j), RDiv(RSub(stop, start), R(num))))]

\* compute_spectrogram, lines 94-97, on the frames of line 93
SpectrogramReduce(g, frames, hop_size, fft_size) ==
  LET magnitudes == Magnitudes(frames, fft_size)
      cols == IF Size(magnitudes) = 0 THEN 0 ELSE Size(magnitudes[0])
  IN  [g EXCEPT !.pc = "returned",
                !.magnitudes = magnitudes,
                !.times = Times(Size(frames), hop_size, g.sample_rate),
                !.frequencies = Linspace(R(0), Rat(g.sample_rate, 2), cols)]


(***************************************************************************)
(* The kernel functions run to completion, as a caller sees them.          *)
(***************************************************************************)
RECURSIVE StftRun(_)
\* compute_stft_frames from call to return or raise
StftRun(s) ==
  IF s.pc = "call" THEN StftRun(StftEnterStep(s))
  ELSE IF s.pc = "loop" /\ s.frame_idx < s.num_frames
  THEN StftRun(StftFrameStep(s))
  ELSE IF s.pc = "loop" THEN [s EXCEPT !.pc = "returned"]
  ELSE s

RECURSIVE IstftRun(_)
\* inverse_stft from call to return or raise
IstftRun(s) ==
  IF s.pc = "call" THEN IstftRun(IstftEnterStep(s))
  ELSE IF s.pc = "loop" /\ s.frame_idx < s.rows
  THEN IstftRun(IstftRowStep(s))
  ELSE IF s.pc = "loop" THEN IstftReturnStep(s)
  ELSE s

(***************************************************************************)
(* routers/dsp_router.py and main.py: the HTTP boundary.  A ComplexNumber  *)
(* is a record [re, im]; a response is [status, detail, body].             *)
(***************************************************************************)
None == "None"
Response(status, detail, body) ==
  [status |-> status, detail |-> detail, body |-> body]

\* _complex_list_to_numpy
ComplexListToNumpy(items) ==
  [k \in DOMAIN items |-> <<items[k].re, items[k].im>>]

\* _complex_array_to_list
ComplexArrayToList(array) ==
  [k \in DOMAIN array |-> [re |-> array[k][1], im |-> array[k][2]]]

\* _complex_matrix_to_list
ComplexMatrixToList(array) ==
  [k \in DOMAIN array |-> ComplexArrayToList(array[k])]

\* _complex_matrix_to_numpy: the width is that of the first row; a longer
\* row indexes past it (IndexError), a shorter row leaves zeros
ComplexMatrixToNumpy(matrix) ==
  LET rows == Size(matrix)
      cols == IF rows # 0 THEN Size(matrix[0]) ELSE 0
  IN  IF \E i \in DOMAIN matrix : Size(matrix[i]) > cols
      THEN [st |-> "raised", err |-> "IndexError", rows |-> rows,
            cols |-> cols, val |-> EmptyArr]
      ELSE [st |-> "returned", err |-> "", rows |-> rows, cols |-> cols,
            val |-> [i \in 0 .. rows - 1 |->
                       [j \in 0 .. cols - 1 |->
                          IF j < Size(matrix[i])
                          THEN <<matrix[i][j].re, matrix[i][j].im>>
                          ELSE CZero]]]

\* STFTOptionsModel and STFTRequest.sample_rate: the fields below their
\* minimum (pydantic answers 422 before the handler runs)
OptionErrors(q) ==
  {f \in {"window_size", "hop_size", "fft_size"} :
     \/ f = "window_size" /\ q.window_size < 2
     \/ f = "hop_size" /\ q.hop_size < 1
     \/ f = "fft_size" /\ q.fft_size < 2}
RateErrors(q) == IF q.sample_rate < 1 THEN {"sample_rate"} ELSE {}

\* compute_fft_endpoint
FftEndpoint(q) ==
  LET r == FftFast(ComplexListToNumpy(q.signal))
  IN  IF r.st = "raised" THEN Response(400, r.err, None)
      ELSE Response(200, "", [spectrum |-> ComplexArrayToList(r.val)])

\* compute_ifft_endpoint
IfftEndpoint(q) ==
  LET r == IfftFast(ComplexListToNumpy(q.spectrum))
  IN  IF r.st = "raised" THEN Response(400, r.err, None)
      ELSE Response(200, "", [signal |-> ComplexArrayToList(r.val)])

\* faulty variant: the handler's frequency axis runs to sample_rate, not to
\* sample_rate / 2
StftEndpointFullBand(q) ==
  LET bad == OptionErrors(q) \cup RateErrors(q)
      r == StftRun(StftCall(q.signal, q.window_size, q.hop_size, q.fft_size))
      magnitudes == Magnitudes(r.frames, q.fft_size)
      cols == IF Size(magnitudes) = 0 THEN 0 ELSE Size(magnitudes[0])
  IN  IF bad # {} THEN Response(422, bad, None)
      ELSE IF r.pc = "raised" THEN Response(400, r.err, None)
      ELSE Response(200, "",
             [frames |-> IF q.include_frames
                         THEN ComplexMatrixToList(r.frames) ELSE None,
              magnitudes |-> IF q.include_magnitudes THEN magnitudes ELSE None,
              frequencies |-> IF q.include_magnitudes
                              THEN Linspace(R(0), R(q.sample_rate), cols)
                              ELSE None,
              times |-> IF q.include_magnitudes
                        THEN Times(Size(r.frames), q.hop_size, q.sample_rate)
                        ELSE None])

\* compute_stft_endpoint
StftEndpoint(q) ==
  LET bad == OptionErrors(q) \cup RateErrors(q)
      r == StftRun(StftCall(q.signal, q.window_size, q.hop_size, q.fft_size))
      magnitudes == Magnitudes(r.frames, q.fft_size)
      cols == IF Size(magnitudes) = 0 THEN 0 ELSE Size(magnitudes[0])
  IN  IF bad # {} THEN Response(422, bad, None)
      ELSE IF r.pc = "raised" THEN Response(400, r.err, None)
      ELSE Response(200, "",
             [frames |-> IF q.include_frames
                         THEN ComplexMatrixToList(r.frames) ELSE None,
              magnitudes |-> IF q.include_magnitudes THEN magnitudes ELSE None,
              frequencies |-> IF q.include_magnitudes
                              THEN Linspace(R(0), Rat(q.sample_rate, 2), cols)
                              ELSE None,
              times |-> IF q.include_magnitudes
                        THEN Times(Size(r.frames), q.hop_size, q.sample_rate)
                        ELSE None])

\* compute_istft_endpoint: only ValueError is caught; any other exception
\* leaves the handler and is answered 500
IstftEndpoint(q) ==
  LET bad == OptionErrors(q)
      m == ComplexMatrixToNumpy(q.frames)
      r == IstftRun(IstftCall(2, m.rows, m.cols, m.val, q.window_size,
                              q.hop_size))
  IN  IF bad # {} THEN Response(422, bad, None)
      ELSE IF m.st = "raised" THEN Response(500, "Internal Server Error", None)
      ELSE IF r.pc = "raised" THEN Response(400, r.err, None)
      ELSE Response(200, "", [signal |-> r.output])

\* main.py: the routes registered on app (no router is included)
AppRoutes ==
  {<<"GET", "/">>, <<"GET", "/health">>, <<"GET", "/api/info">>,
   <<"POST", "/api/audio/separate">>, <<"GET", "/api/audio/sample">>}

\* dsp_router.py: the routes of router, under its prefix
RouterPrefix == "/api/dsp"
RouterRoutes ==
  {<<"POST", RouterPrefix \o "/fft">>, <<"POST", RouterPrefix \o "/ifft">>,
   <<"POST", RouterPrefix \o "/stft">>, <<"POST", RouterPrefix \o "/istft">>}


(***************************************************************************)
(* The kernel on a heap of numpy buffers.  A buffer is [dtype, ndim, val]; *)
(* buffers are numbered from 1 in allocation order.  A reference is a      *)
(* whole buffer (row = -1) or a view of one row of a 2-D buffer.  A call   *)
(* yields [heap, ret, err]: the heap it leaves, the references it returns  *)
(* (none when it raises) and the message of the ValueError.                *)
(***************************************************************************)
Ref(buf, row) == [buf |-> buf, row |-> row]
Whole(buf) == Ref(buf, -1)

Read(h, ref) ==
  IF ref.row = -1 THEN h[ref.buf].val ELSE h[ref.buf].val[ref.row]

Write(h, ref, val) ==
  IF ref.row = -1 THEN [h EXCEPT ![ref.buf].val = val]
  ELSE [h EXCEPT ![ref.buf].val[ref.row] = val]

\* a new buffer (np.zeros, np.conj, np.abs, arithmetic, ...)
Alloc(h, dtype, ndim, val) ==
  [heap |-> Append(h, [dtype |-> dtype, ndim |-> ndim, val |-> val]),
   ref |-> Whole(Len(h) + 1)]

MemRaise(h, msg) == [heap |-> h, ret |-> <<>>, err |-> msg]
MemReturn(h, refs) == [heap |-> h, ret |-> refs, err |-> ""]

\* np.asarray(x, dtype): the array itself when it has the dtype already,
\* else a converted copy (float64 to complex128)
AsArray(h, ref, dtype) ==
  IF h[ref.buf].dtype = dtype THEN [heap |-> h, ref |-> ref]
  ELSE Alloc(h, dtype, 1,
             [k \in DOMAIN Read(h, ref) |-> CFromReal(Read(h, ref)[k])])

\* faulty variant: X = x, the transform then works in the caller's buffer
CopyAlias(h, ref) == [heap |-> h, ref |-> ref]

\* X = x.copy()
Copy(h, ref) == Alloc(h, h[ref.buf].dtype, 1, Read(h, ref))

\* F applied to the value of v: each step of a call works on the heap the
\* step before it left
Then(v, F(_)) == CHOOSE r \in {F(c) : c \in {v}} : TRUE

\* _fft_fast_impl: every write goes to X
FftFastImplMem(h, ref) ==
  Then(Copy(h, ref), LAMBDA c :
    [heap |-> Write(c.heap, c.ref, FftFastImpl(Read(c.heap, c.ref))),
     ref |-> c.ref])

\* fft_fast
FftFastMem(h, ref) ==
  Then(AsArray(h, ref, "complex128"), LAMBDA a :
    IF ~IsPowerOfTwo(Size(Read(a.heap, a.ref)))
    THEN MemRaise(a.heap,
                  "fft_fast requires input length to be a power of two")
    ELSE Then(FftFastImplMem(a.heap, a.ref), LAMBDA t :
           MemReturn(t.heap, <<t.ref>>)))

\* _ifft_fast_impl: np.conj(X), _fft_fast_impl of it, np.conj(x_conj) / N
IfftFastImplMem(h, ref) ==
  Then(Read(h, ref), LAMBDA X :
    Then(Alloc(h, "complex128", 1, [k \in DOMAIN X |-> CConj(X[k])]),
         LAMBDA Xconj :
      Then(FftFastImplMem(Xconj.heap, Xconj.ref), LAMBDA t :
        Then(Read(t.heap, t.ref), LAMBDA xconj :
          Alloc(t.heap, "complex128", 1,
                [k \in DOMAIN X |-> CDivInt(CConj(xconj[k]), Size(X))])))))

\* ifft_fast
IfftFastMem(h, ref) ==
  Then(AsArray(h, ref, "complex128"), LAMBDA a :
    IF ~IsPowerOfTwo(Size(Read(a.heap, a.ref)))
    THEN MemRaise(a.heap,
                  "ifft_fast requires input length to be a power of two")
    ELSE Then(IfftFastImplMem(a.heap, a.ref), LAMBDA t :
           MemReturn(t.heap, <<t.ref>>)))

RECURSIVE StftLoopMem(_, _, _, _, _, _, _, _, _)
\* compute_stft_frames, lines 47-52: padded is a new buffer, fft_fast
\* returns a new buffer, frames[frame_idx] = ... copies it into frames
StftLoopMem(h, frames, samples, hann, window_size, hop_size, fft_size, frame_idx, num_frames) ==
  IF frame_idx >= num_frames THEN h
  ELSE LET start == frame_idx * hop_size
           segment == Slice(Read(h, samples), start, start + window_size)
       IN  Then(Alloc(h, "complex128", 1,
                      StftPadded(segment, Read(h, hann), window_size,
                                 fft_size)),
                LAMBDA padded :
             Then(FftFastMem(padded.heap, padded.ref), LAMBDA row :
               Then(Write(row.heap, Ref(frames.buf, frame_idx),
                          Read(row.heap, row.ret[1])),
                    LAMBDA h2 :
                 StftLoopMem(h2, frames, samples, hann, window_size,
                             hop_size, fft_size, frame_idx + 1,
                             num_frames))))

\* compute_stft_frames on a 1-D float64 buffer
StftMem(h, ref, window_size, hop_size, fft_size) ==
  LET v == ValidateFftParams(window_size, hop_size, fft_size)
      size == Size(Read(h, ref))
      n == NumFrames(size, window_size, hop_size)
  IN  IF v # "" THEN MemRaise(h, v)
      ELSE IF size < window_size
      THEN MemRaise(h, "signal must be at least as long as window_size")
      ELSE IF HannWindowErr(window_size) # ""
      THEN MemRaise(h, HannWindowErr(window_size))
      ELSE Then(AsArray(h, ref, "float64"), LAMBDA samples :
             Then(Alloc(samples.heap, "float64", 1, HannWindow(window_size)),
                  LAMBDA hann :
               Then(Alloc(hann.heap, "complex128", 2,
                          ZeroMatrix(n, fft_size)),
                    LAMBDA frames :
                 Then(StftLoopMem(frames.heap, frames.ref, samples.ref,
                                  hann.ref, window_size, hop_size, fft_size,
                                  0, n),
                      LAMBDA filled : MemReturn(filled, <<frames.ref>>)))))

RECURSIVE IstftLoopMem(_, _, _, _, _, _, _, _, _)
\* inverse_stft, lines 73-78: frames[frame_idx] is a view; both in-place
\* additions go to the buffers allocated at lines 70-71
IstftLoopMem(h, frames, output, window_accum, hann, window_size, hop_size, frame_idx, num_frames) ==
  IF frame_idx >= num_frames THEN h
  ELSE LET start == frame_idx * hop_size
           end == start + window_size
       IN  Then(IfftFastMem(h, Ref(frames.buf, frame_idx)), LAMBDA td :
             Then(Write(td.heap, output,
                        AddAt(Read(td.heap, output), start, end,
                              OverlapTerm(Read(td.heap, td.ret[1]),
                                          Read(td.heap, hann), window_size))),
                  LAMBDA h1 :
               Then(Write(h1, window_accum,
                          AddAt(Read(h1, window_accum), start, end,
                                Read(h1, hann))),
                    LAMBDA h2 :
                 IstftLoopMem(h2, frames, output, window_accum, hann,
                              window_size, hop_size, frame_idx + 1,
                              num_frames))))

\* inverse_stft on a 2-D complex128 buffer
IstftMem(h, ref, window_size, hop_size) ==
  LET rows == Size(Read(h, ref))
      cols == IF rows = 0 THEN 0 ELSE Size(Read(h, ref)[0])
      v == ValidateFftParams(window_size, hop_size, cols)
      n == OutputLength(rows, window_size, hop_size)
  IN  IF h[ref.buf].ndim # 2 THEN MemRaise(h, "frames must be a 2D array")
      ELSE IF v # "" THEN MemRaise(h, v)
      ELSE IF HannWindowErr(window_size) # ""
      THEN MemRaise(h, HannWindowErr(window_size))
      ELSE IF n < 0 THEN MemRaise(h, "negative dimensions are not allowed")
      ELSE Then(Alloc(h, "float64", 1, HannWindow(window_size)),
                LAMBDA hann :
             Then(Alloc(hann.heap, "float64", 1, ZeroReal(n)),
                  LAMBDA output :
               Then(Alloc(output.heap, "float64", 1, ZeroReal(n)),
                    LAMBDA window_accum :
                 Then(IstftLoopMem(window_accum.heap, ref, output.ref,
                                   window_accum.ref, hann.ref, window_size,
                                   hop_size, 0, rows),
                      LAMBDA summed :
                   MemReturn(Write(summed, output.ref,
                                   Normalize(Read(summed, output.ref),
                                             Read(summed, window_accum.ref))),
                             <<output.ref>>)))))

\* compute_spectrogram: three new buffers from the frames
SpectrogramMem(h, ref, sample_rate, window_size, hop_size, fft_size) ==
  Then(StftMem(h, ref, window_size, hop_size, fft_size), LAMBDA e :
    IF e.err # "" THEN e
    ELSE Then(Read(e.heap, e.ret[1]), LAMBDA frames :
      Then(Alloc(e.heap, "float64", 2, Magnitudes(frames, fft_size)),
           LAMBDA magnitudes :
        Then(Alloc(magnitudes.heap, "float64", 1,
                   Times(Size(frames), hop_size, sample_rate)),
             LAMBDA times :
          Then(Alloc(times.heap, "float64", 1,
                     Linspace(R(0), Rat(sample_rate, 2),
                              IF Size(frames) = 0 THEN 0
                              ELSE Size(Read(magnitudes.heap,
                                             magnitudes.ref)[0]))),
               LAMBDA frequencies :
            MemReturn(frequencies.heap,
                      <<magnitudes.ref, frequencies.ref, times.ref>>))))))


(***************************************************************************)
(* The rows of inverse_stft worked on by concurrent workers.  Worker k     *)
(* does the body of the loop (lines 74-78) for row k; an in-place addition *)
(* buf[start:end] += vals reads the slice, adds, and writes the slice      *)
(* back, and nothing orders the steps of different workers.                *)
(***************************************************************************)
\* faulty variant: every row is placed at the start of the buffer
RowStartZero(frame_idx, hop_size) == 0

\* start = frame_idx * hop_size
RowStart(frame_idx, hop_size) == frame_idx * hop_size

\* the slice read by an in-place addition with vals added to it
AddSlices(snap, vals) ==
  [k \in DOMAIN snap |->
     RAdd(snap[k], IF Size(vals) = 1 THEN vals[0] ELSE vals[k])]

\* the slice written back: buf[start : start + len(vals)] = vals
PutAt(buf, start, vals) ==
  [n \in DOMAIN buf |->
     IF start <= n /\ n < start + Size(vals) THEN vals[n - start]
     ELSE buf[n]]

\* a worker before its first step
WorkerStart == [pc |-> "ifft", term |-> EmptyArr, snap |-> EmptyArr]


(***************************************************************************)
(* Inputs.                                                                 *)
(***************************************************************************)
\* the complex samples arrays are drawn from: 0, 1, -1, i
Samples == {C(0, 0), C(1, 0), C(-1, 0), C(0, 1)}
Arrays(S, n) == [0 .. n - 1 -> S]
FftInputs == UNION {Arrays(Samples, n) : n \in 0 .. MaxLen}

\* a literal array, written as a tuple of integers (real) for the formulas
RealArr(t) == [k \in 0 .. Len(t) - 1 |-> C(t[k + 1], 0)]

LinIdle == [st |-> "idle", x |-> EmptyArr, y |-> EmptyArr, a |-> CZero,
            b |-> CZero, fx |-> NotCalled, fy |-> NotCalled, fz |-> NotCalled]
StftIdle == [StftCall(EmptyArr, 0, 0, 0) EXCEPT !.pc = "idle"]
IstftIdle == [IstftCall(2, 0, 0, NoFrames, 0, 0) EXCEPT !.pc = "idle"]
SgramIdle ==
  [pc |-> "idle", sample_rate |-> 0, err |-> "",
   magnitudes |-> EmptyArr, frequencies |-> EmptyArr, times |-> EmptyArr]
HannIdle == [pc |-> "idle", size |-> 0, err |-> "", val |-> EmptyArr]
HttpIdle ==
  [pc |-> "idle", app |-> "", method |-> "", path |-> "",
   signal |-> EmptyArr, spectrum |-> EmptyArr, frames |-> EmptyArr,
   sample_rate |-> 0, window_size |-> 0, hop_size |-> 0, fft_size |-> 0,
   include_frames |-> FALSE, include_magnitudes |-> FALSE,
   response |-> Response(0, "", None)]
NoCall == [fn |-> "", arg |-> 0, before |-> 0, ret |-> {}, err |-> ""]
MemIdle ==
  [pc |-> "idle", heap |-> <<>>, orig |-> <<>>, known |-> {}, calls |-> 0,
   last |-> NoCall, log |-> <<>>,
   sample_rate |-> 0, window_size |-> 0, hop_size |-> 0, fft_size |-> 0]
ParIdle == [s |-> IstftIdle, w |-> <<>>]
MoreIdle ==
  /\ sgram = SgramIdle
  /\ hannRes = HannIdle
  /\ http = HttpIdle
  /\ mem = MemIdle
  /\ par = ParIdle
CoreIdle == [pc |-> "idle"]
DmxIdle == [pc |-> "idle"]
ChkIdle == [pc |-> "idle"]
TrlIdle == [pc |-> "none"]
RestIdle ==
  /\ core = CoreIdle
  /\ dmx = DmxIdle
  /\ chk = ChkIdle
  /\ trl = TrlIdle

(***************************************************************************)
(* Spec: a caller of fft_fast and ifft_fast.  The caller holds an array x, *)
(* transforms it forward, transforms it backward, and feeds the spectrum   *)
(* it got from fft_fast to ifft_fast.                                      *)
(***************************************************************************)
Init ==
  /\ RestIdle
  /\ MoreIdle
  /\ x \in FftInputs
  /\ fftRes = NotCalled
  /\ ifftRes = NotCalled
  /\ rtRes = NotCalled
  /\ lin = LinIdle
  /\ stft = StftIdle
  /\ istft = IstftIdle

\* fft_fast(x)
CallFft ==
  /\ fftRes.st = "none"
  /\ fftRes' = FftFast(x)
  /\ UNCHANGED <<rest, more, x, ifftRes, rtRes, lin, stft, istft>>

\* ifft_fast(x)
CallIfft ==
  /\ ifftRes.st = "none"
  /\ ifftRes' = IfftFast(x)
  /\ UNCHANGED <<rest, more, x, fftRes, rtRes, lin, stft, istft>>

\* ifft_fast(fft_fast(x)), as in test_fft_ifft_roundtrip
CallIfftOfSpectrum ==
  /\ fftRes.st = "returned"
  /\ rtRes.st = "none"
  /\ rtRes' = IfftFast(fftRes.val)
  /\ UNCHANGED <<rest, more, x, fftRes, ifftRes, lin, stft, istft>>

Next == CallFft \/ CallIfft \/ CallIfftOfSpectrum

Spec == Init /\ [][Next]_vars

(***************************************************************************)
(* SpecLin: fft_fast applied to x, to y and to a*x + b*y.                  *)
(***************************************************************************)
LinSamplesX == {C(0, 0), C(1, 0), C(0, 1)}
LinSamplesY == {C(1, 0), C(-1, 0)}
LinScalarsA == {C(2, 0), C(0, 1)}
LinScalarsB == {C(-1, 0), C(0, 1)}

\* a*x + b*y on equal-length arrays (numpy elementwise arithmetic)
Axpby(a, u, b, v) == [k \in DOMAIN u |-> CAdd(CMul(a, u[k]), CMul(b, v[k]))]

InitLin ==
  /\ RestIdle
  /\ MoreIdle
  /\ x = EmptyArr
  /\ fftRes = NotCalled
  /\ ifftRes = NotCalled
  /\ rtRes = NotCalled
  /\ \E n \in 0 .. LinMaxLen :
       \E u \in Arrays(LinSamplesX, n), v \in Arrays(LinSamplesY, n) :
         \E a \in LinScalarsA, b \in LinScalarsB :
           lin = [LinIdle EXCEPT !.st = "ready", !.x = u, !.y = v,
                                 !.a = a, !.b = b]
  /\ stft = StftIdle
  /\ istft = IstftIdle

LinFftX ==
  /\ lin.st = "ready" /\ lin.fx.st = "none"
  /\ lin' = [lin EXCEPT !.fx = FftFast(lin.x)]
  /\ UNCHANGED <<rest, more, x, fftRes, ifftRes, rtRes, stft, istft>>

LinFftY ==
  /\ lin.st = "ready" /\ lin.fy.st = "none"
  /\ lin' = [lin EXCEPT !.fy = FftFast(lin.y)]
  /\ UNCHANGED <<rest, more, x, fftRes, ifftRes, rtRes, stft, istft>>

LinFftZ ==
  /\ lin.st = "ready" /\ lin.fz.st = "none"
  /\ lin' = [lin EXCEPT !.fz = FftFast(Axpby(lin.a, lin.x, lin.b, lin.y))]
  /\ UNCHANGED <<rest, more, x, fftRes, ifftRes, rtRes, stft, istft>>

NextLin == LinFftX \/ LinFftY \/ LinFftZ

SpecLin == InitLin /\ [][NextLin]_vars

(***************************************************************************)
(* SpecStft: one call of compute_stft_frames on a 1-D signal, entered,     *)
(* run frame by frame, and returned.                                       *)
(***************************************************************************)
SigVals == {R(1), R(2)}
StftSignals == UNION {Arrays(SigVals, n) : n \in 0 .. MaxSig}

InitStft ==
  /\ RestIdle
  /\ MoreIdle
  /\ x = EmptyArr
  /\ fftRes = NotCalled
  /\ ifftRes = NotCalled
  /\ rtRes = NotCalled
  /\ lin = LinIdle
  /\ \E sig \in StftSignals, w \in -1 .. MaxWin, h \in -1 .. MaxHop,
        f \in -1 .. MaxFft :
       stft = StftCall(sig, w, h, f)
  /\ istft = IstftIdle

StftEnter ==
  /\ stft.pc = "call"
  /\ stft' = StftEnterStep(stft)
  /\ UNCHANGED <<rest, more, x, fftRes, ifftRes, rtRes, lin, istft>>

StftFrame ==
  /\ stft.pc = "loop"
  /\ stft.frame_idx < stft.num_frames
  /\ stft' = StftFrameStep(stft)
  /\ UNCHANGED <<rest, more, x, fftRes, ifftRes, rtRes, lin, istft>>

\* compute_stft_frames, line 54: return frames
StftReturn ==
  /\ stft.pc = "loop"
  /\ stft.frame_idx >= stft.num_frames
  /\ stft' = [stft EXCEPT !.pc = "returned"]
  /\ UNCHANGED <<rest, more, x, fftRes, ifftRes, rtRes, lin, istft>>

NextStft == StftEnter \/ StftFrame \/ StftReturn

SpecStft == InitStft /\ [][NextStft]_vars

(***************************************************************************)
(* SpecIstft: one call of inverse_stft on a frame matrix, entered, run row *)
(* by row, normalized and returned.                                        *)
(***************************************************************************)
\* rows of width n: all ones, a DC-only row, and a row with i in its last bin
RowSamples(n) ==
  { [k \in 0 .. n - 1 |-> C(1, 0)],
    [k \in 0 .. n - 1 |-> IF k = 0 THEN C(2, 0) ELSE CZero],
    [k \in 0 .. n - 1 |-> IF k = n - 1 THEN C(0, 1) ELSE CZero] }

InitIstft ==
  /\ RestIdle
  /\ MoreIdle
  /\ x = EmptyArr
  /\ fftRes = NotCalled
  /\ ifftRes = NotCalled
  /\ rtRes = NotCalled
  /\ lin = LinIdle
  /\ stft = StftIdle
  /\ \E w \in -1 .. MaxWin, h \in -1 .. MaxHop :
       \/ \E nd \in {1, 3} : istft = IstftCall(nd, 0, 0, NoFrames, w, h)
       \/ \E r \in 0 .. MaxRows, c \in 0 .. MaxFft :
            \E m \in [0 .. r - 1 -> RowSamples(c)] :
              istft = IstftCall(2, r, c, m, w, h)

IstftEnter ==
  /\ istft.pc = "call"
  /\ istft' = IstftEnterStep(istft)
  /\ UNCHANGED <<rest, more, x, fftRes, ifftRes, rtRes, lin, stft>>

IstftRow ==
  /\ istft.pc = "loop"
  /\ istft.frame_idx < istft.rows
  /\ istft' = IstftRowStep(istft)
  /\ UNCHANGED <<rest, more, x, fftRes, ifftRes, rtRes, lin, stft>>

IstftReturn ==
  /\ istft.pc = "loop"
  /\ istft.frame_idx >= istft.rows
  /\ istft' = IstftReturnStep(istft)
  /\ UNCHANGED <<rest, more, x, fftRes, ifftRes, rtRes, lin, stft>>

NextIstft == IstftEnter \/ IstftRow \/ IstftReturn

SpecIstft == InitIstft /\ [][NextIstft]_vars

(***************************************************************************)
(* Properties of the transform core.                                       *)
(***************************************************************************)
\* N = 2^k for some k >= 0, stated without the bit trick of the code
PowerOfTwoLength(n) == \E k \in 0 .. n : 2 ^ k = n

\* exp(-2*pi*i*e/N) for N in {1, 2, 4}: one of 1, -i, -1, i
UnitRoot(N, e) ==
  LET q == (e * (4 \div N)) % 4
  IN  CASE q = 0 -> C(1, 0)
        [] q = 1 -> C(0, -1)
        [] q = 2 -> C(-1, 0)
        [] q = 3 -> C(0, 1)

RECURSIVE DftSum(_, _, _, _)
DftSum(a, k, n, N) ==
  IF n >= N THEN CZero
  ELSE CAdd(CMul(a[n], UnitRoot(N, n * k)), DftSum(a, k, n + 1, N))

\* the unnormalized DFT: X[k] = sum over n of x[n] * exp(-2*pi*i*n*k/N)
Dft(a) == [k \in DOMAIN a |-> DftSum(a, k, 0, Size(a))]

\* C1: fft_fast and ifft_fast raise an error for every length that is not a
\* power of two (0, 3, 5, 6, ...) and, for every power-of-two length N >= 1,
\* return an array of exactly N elements.
C1_LengthValidation ==
  /\ fftRes.st # "none" =>
       IF PowerOfTwoLength(Size(x))
       THEN fftRes.st = "returned" /\ Size(fftRes.val) = Size(x)
       ELSE fftRes.st = "raised" /\ fftRes.err # ""
  /\ ifftRes.st # "none" =>
       IF PowerOfTwoLength(Size(x))
       THEN ifftRes.st = "returned" /\ Size(ifftRes.val) = Size(x)
       ELSE ifftRes.st = "raised" /\ ifftRes.err # ""

\* both transforms have rejected an empty array, and elsewhere a length of 6
C1_Witness ==
  /\ Size(x) \in {0, 6}
  /\ fftRes.st = "raised"
  /\ ifftRes.st = "raised"

\* C2: for every x of power-of-two length, fft_fast(x) is the unnormalized
\* DFT of x; [1,1,1,1] maps to [4,0,0,0] and [1,-1,1,-1] to [0,0,4,0].
C2_ForwardIsDft ==
  fftRes.st = "returned" =>
    /\ fftRes.val = Dft(x)
    /\ x = RealArr(<<1, 1, 1, 1>>) => fftRes.val = RealArr(<<4, 0, 0, 0>>)
    /\ x = RealArr(<<1, -1, 1, -1>>) => fftRes.val = RealArr(<<0, 0, 4, 0>>)

\* a length-4 transform whose result needs the twiddle -i
C2_Witness ==
  /\ x = RealArr(<<0, 1, 0, 0>>)
  /\ fftRes.st = "returned"
  /\ fftRes.val = [k \in 0 .. 3 |-> UnitRoot(4, k)]

\* C3: for every x of power-of-two length, ifft_fast(fft_fast(x)) returns x
\* element by element.
C3_RoundTrip ==
  rtRes.st # "none" =>
    /\ rtRes.st = "returned"
    /\ DOMAIN rtRes.val = DOMAIN x
    /\ \A n \in DOMAIN x : rtRes.val[n] = x[n]

\* the round trip of [0, 1, 0, -1] has completed
C3_Witness ==
  /\ x = RealArr(<<0, 1, 0, -1>>)
  /\ rtRes.st = "returned"
  /\ fftRes.val # x

\* C4: fft_fast(a*x + b*y) = a*fft_fast(x) + b*fft_fast(y), element by
\* element, for all scalars a, b and equal-length power-of-two x, y.
C4_Linearity ==
  (lin.fx.st = "returned" /\ lin.fy.st = "returned" /\ lin.fz.st # "none") =>
    /\ lin.fz.st = "returned"
    /\ lin.fz.val = Axpby(lin.a, lin.fx.val, lin.b, lin.fy.val)

\* three length-4 transforms with complex scalars and a non-real x
C4_Witness ==
  /\ Size(lin.x) = 4
  /\ lin.a = C(0, 1)
  /\ lin.x[1] = C(0, 1)
  /\ lin.fx.st = "returned" /\ lin.fy.st = "returned"
  /\ lin.fz.st = "returned"

(***************************************************************************)
(* Properties of the framer.                                               *)
(***************************************************************************)
\* the Hann weights of the window sizes 2, 3 and 4, written out
HannTable(W) ==
  CASE W = 2 -> <<R(0), R(0)>>
    [] W = 3 -> <<R(0), R(1), R(0)>>
    [] W = 4 -> <<R(0), Rat(3, 4), Rat(3, 4), R(0)>>
    [] W = 5 -> <<R(0), Rat(1, 2), R(1), Rat(1, 2), R(0)>>
    [] W = 7 -> <<R(0), Rat(1, 4), Rat(3, 4), R(1), Rat(3, 4), Rat(1, 4), R(0)>>

\* a violated constraint of compute_stft_frames
StftViolation(s) ==
  \/ s.fft_size < s.window_size
  \/ s.hop_size <= 0
  \/ ~PowerOfTwoLength(s.fft_size)
  \/ Size(s.signal) < s.window_size

\* C5: compute_stft_frames raises whenever fft_size < window_size,
\* hop_size <= 0, fft_size is not a power of two or the signal is shorter
\* than window_size, and such a call runs no forward transform and produces
\* no frame.
C5_StftValidation ==
  (stft.pc \notin {"idle", "call"} /\ StftViolation(stft)) =>
    /\ stft.pc = "raised"
    /\ stft.err # ""
    /\ stft.ffts = 0
    /\ stft.frames = NoFrames

\* a call that violates only the power-of-two constraint has been rejected
C5_Witness ==
  /\ stft.pc = "raised"
  /\ stft.fft_size = 3 /\ stft.window_size = 3 /\ stft.hop_size = 1
  /\ Size(stft.signal) = 4
  /\ stft.err = "fft_size must be a power of two for fft_fast"

\* C6: an accepted call returns 1 + floor((L - W) / H) rows of F columns.
C6_FrameShape ==
  stft.pc = "returned" =>
    /\ DOMAIN stft.frames =
         0 .. (Size(stft.signal) - stft.window_size) \div stft.hop_size
    /\ \A k \in DOMAIN stft.frames :
         DOMAIN stft.frames[k] = 0 .. stft.fft_size - 1

\* L = 6, W = 3, H = 2, F = 4 has returned 2 rows of 4 columns
C6_Witness ==
  /\ stft.pc = "returned"
  /\ Size(stft.signal) = 6 /\ stft.window_size = 3 /\ stft.hop_size = 2
  /\ stft.fft_size = 4
  /\ Size(stft.frames) = 2
  /\ stft.ffts = 2

\* the window-weighted, zero-padded slice of the signal that row k transforms
FramerInput(s, k) ==
  [i \in 0 .. s.fft_size - 1 |->
     IF i < s.window_size
     THEN CFromReal(RMul(s.signal[k * s.hop_size + i],
                         HannTable(s.window_size)[i + 1]))
     ELSE CZero]

\* C7: in an accepted call every slice [k*H, k*H + W) lies inside the
\* signal, row k is the forward transform of the W window-weighted samples
\* signal[k*H + i] * w[i] followed by F - W zeros, and the frame count R is
\* maximal: R*H + W > L.
C7_FrameContent ==
  /\ stft.pc \in {"loop", "returned"} =>
       /\ \A k \in 0 .. stft.frame_idx - 1 :
            /\ k * stft.hop_size + stft.window_size <= Size(stft.signal)
            /\ stft.frames[k] = Dft(FramerInput(stft, k))
       /\ stft.num_frames * stft.hop_size + stft.window_size
            > Size(stft.signal)
  /\ stft.pc = "returned" => stft.frame_idx = Size(stft.frames)
  /\ stft.pc = "raised" =>
       (StftViolation(stft) \/ stft.window_size <= 1)

\* a zero-padded frame (W = 3 < F = 4) taken at offset 2*H has been stored
C7_Witness ==
  /\ stft.pc = "returned"
  /\ stft.window_size = 3 /\ stft.fft_size = 4 /\ stft.hop_size = 1
  /\ Size(stft.signal) = 6
  /\ stft.signal[3] = R(2) /\ stft.signal[1] = R(1)
  /\ stft.frames[2] = [k \in 0 .. 3 |-> CMul(C(2, 0), UnitRoot(4, k))]
  /\ stft.frames[0] = [k \in 0 .. 3 |-> UnitRoot(4, k)]

(***************************************************************************)
(* Properties of the reconstructor.                                        *)
(***************************************************************************)
RECURSIVE IDftSum(_, _, _, _)
IDftSum(a, n, k, N) ==
  IF k >= N THEN CZero
  ELSE CAdd(CMul(a[k], CConj(UnitRoot(N, n * k))), IDftSum(a, n, k + 1, N))

\* the inverse DFT: x[n] = (1/N) * sum over k of X[k] * exp(+2*pi*i*n*k/N)
IDft(a) == [n \in DOMAIN a |-> CDivInt(IDftSum(a, n, 0, Size(a)), Size(a))]

\* C8: an accepted inverse_stft call returns exactly (R-1)*H + W samples,
\* and every write of the overlap-add loop (positions k*H .. k*H + W - 1 of
\* row k) is inside that buffer.
C8_OutputLength ==
  /\ istft.pc \in {"loop", "returned"} =>
       /\ Size(istft.output) =
            (istft.rows - 1) * istft.hop_size + istft.window_size
       /\ Size(istft.window_accum) = Size(istft.output)
       /\ istft.frame_idx > 0 =>
            /\ istft.start = (istft.frame_idx - 1) * istft.hop_size
            /\ istft.end = istft.start + istft.window_size
            /\ 0 <= istft.start
            /\ istft.end <= Size(istft.output)
  /\ istft.pc = "returned" => istft.frame_idx = istft.rows
  /\ istft.err # BroadcastError

\* three rows with W = 3 and H = 2 have been overlap-added into 7 samples
C8_Witness ==
  /\ istft.pc = "returned"
  /\ istft.rows = 3 /\ istft.window_size = 3 /\ istft.hop_size = 2
  /\ istft.cols = 4
  /\ Size(istft.output) = 7
  /\ istft.end = 7

\* the rows k < upto whose window [k*H, k*H + W) covers position n
Covering(s, n, upto) ==
  {k \in 0 .. upto - 1 :
     k * s.hop_size <= n /\ n < k * s.hop_size + s.window_size}

RECURSIVE SumOver(_, _, _)
SumOver(F(_), S, acc) ==
  IF S = {} THEN acc
  ELSE LET k == CHOOSE k \in S : TRUE
       IN  SumOver(F, S \ {k}, RAdd(acc, F(k)))

\* sum over the covering rows of Re(ifft(row k))[n - k*H]
PlainSum(s, n, upto) ==
  LET Term(k) == CReal(IDft(s.frames[k])[n - k * s.hop_size])
  IN  SumOver(Term, Covering(s, n, upto), R(0))

\* sum over the covering rows of w[n - k*H] * Re(ifft(row k))[n - k*H]
WindowedSum(s, n, upto) ==
  LET Term(k) == RMul(HannTable(s.window_size)[n - k * s.hop_size + 1],
                      CReal(IDft(s.frames[k])[n - k * s.hop_size]))
  IN  SumOver(Term, Covering(s, n, upto), R(0))

\* sum over the covering rows of w[n - k*H]
WeightSum(s, n, upto) ==
  LET Term(k) == HannTable(s.window_size)[n - k * s.hop_size + 1]
  IN  SumOver(Term, Covering(s, n, upto), R(0))

ExceedsEpsilon(p) == p[1] * 1000000 > p[2] \div 1000000

\* C10: in the returned signal every position whose accumulated window
\* weight does not exceed 1e-12 is 0, and every other position is its
\* accumulated sum divided by its accumulated weight.
C10_ZeroWhereNoWeight ==
  istft.pc = "returned" =>
    \A n \in DOMAIN istft.output :
      IF ExceedsEpsilon(WeightSum(istft, n, istft.rows))
      THEN RMul(istft.output[n], WeightSum(istft, n, istft.rows))
             = PlainSum(istft, n, istft.rows)
      ELSE istft.output[n] = R(0)

(***************************************************************************)
(* SpecPipe: compute_stft_frames and inverse_stft used together.  Either   *)
(* the frames compute_stft_frames returned are handed to inverse_stft with *)
(* the same window_size and hop_size (test_stft_and_istft), or both are    *)
(* called with the same (window_size, hop_size, fft_size), inverse_stft on *)
(* a matrix of fft_size columns.                                           *)
(***************************************************************************)
OnesSignal(n) == [k \in 0 .. n - 1 |-> R(1)]
OnesMatrix(r, c) == [k \in 0 .. r - 1 |-> [j \in 0 .. c - 1 |-> C(1, 0)]]

InitPipe ==
  /\ RestIdle
  /\ MoreIdle
  /\ x = EmptyArr
  /\ fftRes = NotCalled
  /\ ifftRes = NotCalled
  /\ rtRes = NotCalled
  /\ lin = LinIdle
  /\ \E w \in -1 .. MaxWin, h \in -1 .. MaxHop, f \in -1 .. MaxFft :
       \/ /\ \E sig \in StftSignals : stft = StftCall(sig, w, h, f)
          /\ istft = [IstftIdle EXCEPT !.pc = "wait"]
       \/ /\ f >= 0
          /\ \E n \in 0 .. MaxSig : stft = StftCall(OnesSignal(n), w, h, f)
          /\ \E r \in 0 .. MaxRows :
               istft = IstftCall(2, r, f, OnesMatrix(r, f), w, h)

\* inverse_stft(frames of compute_stft_frames, window_size, hop_size)
PipeFrames ==
  /\ stft.pc = "returned"
  /\ istft.pc = "wait"
  /\ istft' = IstftCall(2, stft.num_frames, stft.fft_size, stft.frames,
                        stft.window_size, stft.hop_size)
  /\ UNCHANGED <<rest, more, x, fftRes, ifftRes, rtRes, lin, stft>>

NextPipe ==
  \/ StftEnter \/ StftFrame \/ StftReturn
  \/ PipeFrames
  \/ IstftEnter \/ IstftRow \/ IstftReturn

SpecPipe == InitPipe /\ [][NextPipe]_vars

(***************************************************************************)
(* Properties of the framer and the reconstructor together.                *)
(***************************************************************************)
\* inverse_stft has been given the frames compute_stft_frames returned
Piped ==
  /\ stft.pc = "returned"
  /\ istft.pc \notin {"idle", "wait"}
  /\ istft.frames = stft.frames
  /\ istft.rows = stft.num_frames
  /\ istft.window_size = stft.window_size
  /\ istft.hop_size = stft.hop_size

\* C11: for a real signal x and accepted (W, H, F), the signal that
\* inverse_stft rebuilds from the frames of compute_stft_frames equals x[n]
\* at every position n whose accumulated window weight exceeds epsilon.
C11_StftRoundTrip ==
  (Piped /\ istft.pc = "returned") =>
    /\ DOMAIN istft.output \subseteq DOMAIN stft.signal
    /\ \A n \in DOMAIN istft.output :
         ExceedsEpsilon(WeightSum(istft, n, istft.rows)) =>
           istft.output[n] = stft.signal[n]

\* two overlapping frames (W = 4, H = 2) of a signal of 6 samples have been
\* rebuilt; positions 1..4 carry weight 3/4
C11_Witness ==
  /\ Piped /\ istft.pc = "returned"
  /\ istft.window_size = 4 /\ istft.hop_size = 2 /\ istft.rows = 2
  /\ stft.signal[1] = R(2) /\ stft.signal[2] = R(1) /\ stft.signal[4] = R(2)
  /\ istft.window_accum[2] = Rat(3, 4)
  /\ istft.output[1] = R(2) /\ istft.output[2] = R(1) /\ istft.output[4] = R(2)

\* C12 as stated: the signal rebuilt from the frames of a signal of L >= W
\* samples has at least L samples.
C12_RebuiltAtLeastAsLong ==
  (Piped /\ istft.pc = "returned") =>
    Size(istft.output) >= Size(stft.signal)

\* C12 as amended: the rebuilt signal has exactly L - ((L - W) mod H)
\* samples, which is at most L, and equals L exactly when H divides L - W;
\* inverse_stft never rejects the frames.
C12_RebuiltLength ==
  Piped =>
    /\ istft.pc # "raised"
    /\ istft.pc \in {"loop", "returned"} =>
         LET L == Size(stft.signal)
             cut == (L - stft.window_size) % stft.hop_size
         IN  /\ Size(istft.output) = L - cut
             /\ Size(istft.output) <= L
             /\ (Size(istft.output) = L) <=> (cut = 0)

\* a signal of 6 samples (W = 3, H = 2) has been rebuilt with 5 samples
C12_Witness ==
  /\ Piped /\ istft.pc = "returned"
  /\ Size(stft.signal) = 6
  /\ stft.window_size = 3 /\ stft.hop_size = 2
  /\ Size(istft.output) = 5

\* the messages of the three checks of the shared validator
ParamErrors ==
  {"fft_size must be >= window_size", "hop_size must be positive",
   "fft_size must be a power of two for fft_fast"}

\* the triple violates F >= W, H > 0 or F a power of two
TripleRejected(w, h, f) == f < w \/ h <= 0 \/ ~PowerOfTwoLength(f)

\* both functions have been entered with the same triple, F being the row
\* width of the matrix
SameTriple ==
  /\ stft.pc \notin {"idle", "call"}
  /\ istft.pc \notin {"idle", "wait", "call"}
  /\ istft.ndim = 2
  /\ istft.window_size = stft.window_size
  /\ istft.hop_size = stft.hop_size
  /\ istft.cols = stft.fft_size

\* C13: inverse_stft rejects a triple (W, H, F) with a parameter error
\* exactly when the parameter validation of compute_stft_frames rejects it
\* (F < W, H <= 0 or F not a power of two), with the same error, and has
\* then run no inverse transform; and with a signal of at least W samples
\* and a matrix of at least one row, either function raises exactly when
\* the other does, with the same error.
C13_SymmetricValidation ==
  SameTriple =>
    LET rej == TripleRejected(stft.window_size, stft.hop_size, stft.fft_size)
    IN  /\ rej <=> (istft.pc = "raised" /\ istft.err \in ParamErrors)
        /\ rej <=> (stft.pc = "raised" /\ stft.err \in ParamErrors)
        /\ rej => (istft.err = stft.err /\ istft.iffts = 0 /\ stft.ffts = 0)
        /\ (Size(stft.signal) >= stft.window_size /\ istft.rows >= 1) =>
             /\ (stft.pc = "raised") <=> (istft.pc = "raised")
             /\ istft.pc = "raised" =>
                  (istft.err = stft.err /\ istft.iffts = 0)

\* both functions have rejected F = 3 (W = 2, H = 1) with the same message
C13_Witness ==
  /\ SameTriple
  /\ stft.fft_size = 3 /\ stft.window_size = 2 /\ stft.hop_size = 1
  /\ Size(stft.signal) = 4 /\ istft.rows = 2
  /\ istft.pc = "raised" /\ stft.pc = "raised"
  /\ istft.err = "fft_size must be a power of two for fft_fast"
  /\ stft.err = istft.err

(***************************************************************************)
(* SpecSpectrogram: one call of compute_spectrogram (which calls           *)
(* compute_stft_frames and reduces its frames), or one call of hann_window *)
(* on its own.                                                             *)
(***************************************************************************)
MaxRate == 3

\* one real signal of each length
SgramSignals == {[k \in 0 .. n - 1 |-> R(1 + (k % 2))] : n \in 0 .. MaxSig}

\* window sizes whose weights are rational: the rejected sizes, the sizes
\* the framer is run with, and 5 and 7
HannSizes == {-1, 0, 1, 2, 3, 4, 5, 7}

InitSpectrogram ==
  /\ RestIdle
  /\ x = EmptyArr
  /\ fftRes = NotCalled
  /\ ifftRes = NotCalled
  /\ rtRes = NotCalled
  /\ lin = LinIdle
  /\ istft = IstftIdle
  /\ http = HttpIdle
  /\ mem = MemIdle
  /\ par = ParIdle
  /\ \/ /\ \E sig \in SgramSignals, w \in -1 .. MaxWin, h \in -1 .. MaxHop,
              f \in -1 .. MaxFft :
             stft = StftCall(sig, w, h, f)
        /\ \E rate \in 1 .. MaxRate :
             sgram = [SgramIdle EXCEPT !.pc = "call", !.sample_rate = rate]
        /\ hannRes = HannIdle
     \/ /\ stft = StftIdle
        /\ sgram = SgramIdle
        /\ \E size \in HannSizes :
             hannRes = [HannIdle EXCEPT !.pc = "call", !.size = size]

\* compute_spectrogram, lines 94-97
SgramReduce ==
  /\ sgram.pc = "call"
  /\ stft.pc = "returned"
  /\ sgram' = SpectrogramReduce(sgram, stft.frames, stft.hop_size,
                                stft.fft_size)
  /\ UNCHANGED <<rest, hannRes, http, mem, par, x, fftRes, ifftRes, rtRes, lin,
                 stft, istft>>

\* compute_spectrogram, line 93: the ValueError of compute_stft_frames passes
\* through
SgramRaise ==
  /\ sgram.pc = "call"
  /\ stft.pc = "raised"
  /\ sgram' = [sgram EXCEPT !.pc = "raised", !.err = stft.err]
  /\ UNCHANGED <<rest, hannRes, http, mem, par, x, fftRes, ifftRes, rtRes, lin,
                 stft, istft>>

\* hann_window(size)
CallHannWindow ==
  /\ hannRes.pc = "call"
  /\ hannRes' =
       IF HannWindowErr(hannRes.size) # ""
       THEN [hannRes EXCEPT !.pc = "raised",
                            !.err = HannWindowErr(hannRes.size)]
       ELSE [hannRes EXCEPT !.pc = "returned",
                            !.val = HannWindow(hannRes.size)]
  /\ UNCHANGED <<rest, sgram, http, mem, par, x, fftRes, ifftRes, rtRes, lin,
                 stft, istft>>

NextSpectrogram ==
  \/ StftEnter \/ StftFrame \/ StftReturn
  \/ SgramReduce \/ SgramRaise
  \/ CallHannWindow

SpecSpectrogram == InitSpectrogram /\ [][NextSpectrogram]_vars

(***************************************************************************)
(* Properties of compute_spectrogram and hann_window.                      *)
(***************************************************************************)
\* C14: for the R x F frame matrix of the call, sample rate S and hop H,
\* the reduction returns R rows of exactly F/2 magnitudes, the moduli of
\* columns 0 .. F/2 - 1; F/2 frequencies j*S/F, starting at 0 and strictly
\* below S/2; and R times k*H/S.
C14_SpectrogramShape ==
  sgram.pc = "returned" =>
    LET rows == stft.num_frames
        F == stft.fft_size
        S == sgram.sample_rate
    IN  /\ stft.pc = "returned"
        /\ 2 * (F \div 2) = F
        /\ DOMAIN sgram.magnitudes = 0 .. rows - 1
        /\ \A k \in 0 .. rows - 1 :
             /\ DOMAIN sgram.magnitudes[k] = 0 .. (F \div 2) - 1
             /\ \A j \in 0 .. (F \div 2) - 1 :
                  LET c == stft.frames[k][j]
                  IN  /\ sgram.magnitudes[k][j][1] = "sqrt"
                      /\ sgram.magnitudes[k][j][2] =
                           RAdd(RMul(c[1], c[1]), RMul(c[2], c[2]))
        /\ DOMAIN sgram.frequencies = 0 .. (F \div 2) - 1
        /\ \A j \in 0 .. (F \div 2) - 1 :
             /\ sgram.frequencies[j] = Rat(j * S, F)
             /\ RLess(sgram.frequencies[j], Rat(S, 2))
        /\ sgram.frequencies[0] = R(0)
        /\ DOMAIN sgram.times = 0 .. rows - 1
        /\ \A k \in 0 .. rows - 1 :
             sgram.times[k] = Rat(k * stft.hop_size, S)

\* a spectrogram of 2 rows and 2 columns (F = 4, H = 3, S = 3) with a
\* frequency 3/4 and a time 1
C14_Witness ==
  /\ sgram.pc = "returned"
  /\ stft.num_frames = 2 /\ stft.fft_size = 4 /\ stft.hop_size = 3
  /\ sgram.sample_rate = 3
  /\ Size(sgram.magnitudes) = 2 /\ Size(sgram.magnitudes[1]) = 2
  /\ sgram.magnitudes[1][1][2] # R(0)
  /\ sgram.frequencies[1] = Rat(3, 4)
  /\ sgram.times[1] = R(1)

\* C15: hann_window(size) raises for every size <= 1; for every size > 1
\* it returns exactly size weights 0.5 * (1 - cos(2*pi*i/(size - 1))),
\* symmetric, within [0, 1] and 0 at both ends; size 5 gives
\* [0, 0.5, 1, 0.5, 0].
C15_HannWindow ==
  hannRes.pc \in {"returned", "raised"} =>
    LET size == hannRes.size
        w == hannRes.val
    IN  /\ (size <= 1) <=> (hannRes.pc = "raised")
        /\ hannRes.pc = "raised" =>
             hannRes.err = "window_size must be greater than 1"
        /\ hannRes.pc = "returned" =>
             /\ DOMAIN w = 0 .. size - 1
             /\ \A i \in 0 .. size - 1 :
                  /\ w[i] = HannTable(size)[i + 1]
                  /\ w[i] = w[size - 1 - i]
                  /\ ~RLess(w[i], R(0))
                  /\ ~RLess(R(1), w[i])
             /\ w[0] = R(0)
             /\ w[size - 1] = R(0)
             /\ size = 5 =>
                  w = [i \in 0 .. 4 |->
                         <<R(0), Rat(1, 2), R(1), Rat(1, 2), R(0)>>[i + 1]]

\* hann_window(5) has returned its five weights
C15_Witness ==
  /\ hannRes.pc = "returned"
  /\ hannRes.size = 5
  /\ Size(hannRes.val) = 5
  /\ hannRes.val[2] = R(1)

(***************************************************************************)
(* SpecHttp: one request, sent either to app.main:app or to an application *)
(* that serves router (dsp_router.py) alone.                               *)
(***************************************************************************)
HttpMaxRows == 2

\* a list of n ComplexNumber payload items
OnesItems(n) == [k \in 0 .. n - 1 |-> [re |-> R(1), im |-> R(0)]]

\* frame payloads: up to HttpMaxRows rows, each of its own length
HttpMatrices ==
  UNION {{[i \in 0 .. r - 1 |-> OnesItems(lens[i])] :
            lens \in [0 .. r - 1 -> 0 .. MaxFft]} : r \in 0 .. HttpMaxRows}

HttpRequest(app, method, path) ==
  [HttpIdle EXCEPT !.pc = "request", !.app = app, !.method = method,
                   !.path = path]

InitHttp ==
  /\ RestIdle
  /\ x = EmptyArr
  /\ fftRes = NotCalled
  /\ ifftRes = NotCalled
  /\ rtRes = NotCalled
  /\ lin = LinIdle
  /\ stft = StftIdle
  /\ istft = IstftIdle
  /\ sgram = SgramIdle
  /\ hannRes = HannIdle
  /\ mem = MemIdle
  /\ par = ParIdle
  /\ \E app \in {"app.main:app", "router"} :
       \/ /\ app = "app.main:app"
          /\ http = HttpRequest(app, "GET", "/health")
       \/ \E n \in 0 .. MaxFft :
            http = [HttpRequest(app, "POST", "/api/dsp/fft")
                      EXCEPT !.signal = OnesItems(n)]
       \/ \E n \in 0 .. MaxFft :
            http = [HttpRequest(app, "POST", "/api/dsp/ifft")
                      EXCEPT !.spectrum = OnesItems(n)]
       \/ \E n \in 0 .. MaxSig, w \in 1 .. MaxWin, h \in 0 .. MaxHop,
             f \in 1 .. MaxFft, rate \in 0 .. MaxRate,
             fr \in BOOLEAN, mg \in BOOLEAN :
            http = [HttpRequest(app, "POST", "/api/dsp/stft")
                      EXCEPT !.signal = OnesSignal(n),
                             !.window_size = w, !.hop_size = h,
                             !.fft_size = f, !.sample_rate = rate,
                             !.include_frames = fr,
                             !.include_magnitudes = mg]
       \/ \E m \in HttpMatrices, w \in 1 .. MaxWin, h \in 0 .. MaxHop,
             f \in 1 .. MaxFft :
            http = [HttpRequest(app, "POST", "/api/dsp/istft")
                      EXCEPT !.frames = m, !.window_size = w,
                             !.hop_size = h, !.fft_size = f]

Respond(r) ==
  /\ http' = [http EXCEPT !.pc = "responded", !.response = r]
  /\ UNCHANGED <<rest, sgram, hannRes, mem, par, x, fftRes, ifftRes, rtRes, lin,
                 stft, istft>>

\* app.main:app: a registered route is served, any other path gets the
\* answer of not_found_handler
ServeMain ==
  /\ http.pc = "request"
  /\ http.app = "app.main:app"
  /\ IF <<http.method, http.path>> \in AppRoutes
     THEN Respond(Response(200, "", [status |-> "healthy"]))
     ELSE Respond(Response(404, "Not Found", None))

ServeFft ==
  /\ http.pc = "request"
  /\ http.app = "router"
  /\ <<http.method, http.path>> = <<"POST", RouterPrefix \o "/fft">>
  /\ Respond(FftEndpoint(http))

ServeIfft ==
  /\ http.pc = "request"
  /\ http.app = "router"
  /\ <<http.method, http.path>> = <<"POST", RouterPrefix \o "/ifft">>
  /\ Respond(IfftEndpoint(http))

ServeStft ==
  /\ http.pc = "request"
  /\ http.app = "router"
  /\ <<http.method, http.path>> = <<"POST", RouterPrefix \o "/stft">>
  /\ Respond(StftEndpoint(http))

ServeIstft ==
  /\ http.pc = "request"
  /\ http.app = "router"
  /\ <<http.method, http.path>> = <<"POST", RouterPrefix \o "/istft">>
  /\ Respond(IstftEndpoint(http))

NextHttp == ServeMain \/ ServeFft \/ ServeIfft \/ ServeStft \/ ServeIstft

SpecHttp == InitHttp /\ [][NextHttp]_vars

(***************************************************************************)
(* Properties of the HTTP boundary.                                        *)
(***************************************************************************)
\* the rows of the frames payload do not all have the same length
Ragged(m) == \E i, k \in DOMAIN m : Size(m[i]) # Size(m[k])

\* the payload violates a constraint of the core operation
PayloadViolates(q) ==
  LET cols == IF Size(q.frames) = 0 THEN 0 ELSE Size(q.frames[0])
  IN  CASE q.path = "/api/dsp/fft" -> ~PowerOfTwoLength(Size(q.signal))
        [] q.path = "/api/dsp/ifft" -> ~PowerOfTwoLength(Size(q.spectrum))
        [] q.path = "/api/dsp/stft" ->
             \/ TripleRejected(q.window_size, q.hop_size, q.fft_size)
             \/ Size(q.signal) < q.window_size
        [] q.path = "/api/dsp/istft" ->
             \/ Ragged(q.frames)
             \/ TripleRejected(q.window_size, q.hop_size, cols)
        [] OTHER -> FALSE

\* the request satisfies the field minimums and the constraints of the
\* core operation
ValidDspRequest(q) ==
  /\ <<q.method, q.path>> \in RouterRoutes
  /\ ~PayloadViolates(q)
  /\ q.path \in {"/api/dsp/stft", "/api/dsp/istft"} =>
       (q.window_size >= 2 /\ q.hop_size >= 1 /\ q.fft_size >= 2)
  /\ q.path = "/api/dsp/stft" => q.sample_rate >= 1

\* C16 as stated: every request to a DSP endpoint whose payload violates a
\* constraint of the core operation is answered with a 4xx status and a
\* message, never with a 5xx status.
C16_ClientFault ==
  (http.pc = "responded" /\ http.app = "router" /\ PayloadViolates(http)) =>
    /\ http.response.status \in 400 .. 499
    /\ http.response.status < 500
    /\ http.response.status = 400 => http.response.detail # ""

\* every violation other than a ragged frames matrix is answered 400 with
\* the message of the kernel or 422 with the offending fields
RectangularClientFault ==
  (/\ http.pc = "responded" /\ http.app = "router"
   /\ PayloadViolates(http) /\ ~Ragged(http.frames)) =>
    \/ /\ http.response.status = 400
       /\ http.response.detail \in
            ParamErrors \cup
              {"fft_fast requires input length to be a power of two",
               "ifft_fast requires input length to be a power of two",
               "signal must be at least as long as window_size"}
    \/ /\ http.response.status = 422
       /\ http.response.detail \subseteq
            {"window_size", "hop_size", "fft_size", "sample_rate"}
       /\ http.response.detail # {}

\* C17 as stated: app.main:app answers a valid request to a DSP endpoint
\* with status 200, never 404.
C17_AppServesDsp ==
  (/\ http.pc = "responded" /\ http.app = "app.main:app"
   /\ ValidDspRequest(http)) =>
    /\ http.response.status = 200
    /\ http.response.status # 404

(***************************************************************************)
(* SpecMem: a caller that owns a complex128 array and a float64 signal     *)
(* calls the kernel functions, in any order, on any array it holds (its    *)
(* own or one returned earlier), and may write into any array it holds.    *)
(* orig records, for every buffer, the values it had when the caller got   *)
(* it or last wrote to it; log records every call with its argument and    *)
(* its outcome.                                                            *)
(***************************************************************************)
MaxCalls == 3

\* the caller's complex128 arrays: one of a power-of-two length, one not
MemArrays ==
  {[k \in 0 .. 1 |-> <<C(1, 0), C(0, 1)>>[k + 1]],
   [k \in 0 .. 2 |-> <<C(1, 0), C(0, 0), C(-1, 0)>>[k + 1]]}

\* the caller's signal length with (window_size, hop_size, fft_size)
MemParams == {<<4, 2, 2, 2>>, <<5, 3, 2, 4>>}

InitMem ==
  /\ RestIdle
  /\ x = EmptyArr
  /\ fftRes = NotCalled
  /\ ifftRes = NotCalled
  /\ rtRes = NotCalled
  /\ lin = LinIdle
  /\ stft = StftIdle
  /\ istft = IstftIdle
  /\ sgram = SgramIdle
  /\ hannRes = HannIdle
  /\ http = HttpIdle
  /\ par = ParIdle
  /\ \E a \in MemArrays, q \in MemParams :
       LET sig == [k \in 0 .. q[1] - 1 |-> R(1 + (k % 2))]
           h0 == <<[dtype |-> "complex128", ndim |-> 1, val |-> a],
                   [dtype |-> "float64", ndim |-> 1, val |-> sig]>>
       IN  mem = [MemIdle EXCEPT !.pc = "run", !.heap = h0,
                                 !.orig = <<a, sig>>, !.known = {1, 2},
                                 !.sample_rate = 2, !.window_size = q[2],
                                 !.hop_size = q[3], !.fft_size = q[4]]

\* the state after a call with effect e of function fn on buffer id
AfterCall(fn, id, e) ==
  /\ mem' =
       [mem EXCEPT
          !.heap = e.heap,
          !.orig = [i \in 1 .. Len(e.heap) |->
                      IF i <= Len(mem.heap) THEN mem.orig[i]
                      ELSE e.heap[i].val],
          !.known = @ \cup {e.ret[i].buf : i \in DOMAIN e.ret},
          !.calls = @ + 1,
          !.last = [fn |-> fn, arg |-> id, before |-> Len(mem.heap),
                    ret |-> {e.ret[i].buf : i \in DOMAIN e.ret},
                    err |-> e.err],
          !.log = Append(@, [fn |-> fn, dtype |-> mem.heap[id].dtype,
                             ndim |-> mem.heap[id].ndim,
                             arg |-> mem.heap[id].val, err |-> e.err,
                             out |-> [i \in DOMAIN e.ret |->
                                        Read(e.heap, e.ret[i])]])]
  /\ UNCHANGED <<rest, sgram, hannRes, http, par, x, fftRes, ifftRes, rtRes, lin,
                 stft, istft>>

CanCall == mem.pc = "run" /\ mem.calls < MaxCalls

MemFft ==
  /\ CanCall
  /\ \E id \in mem.known :
       /\ mem.heap[id].ndim = 1
       /\ \E e \in {FftFastMem(mem.heap, Whole(id))} :
            AfterCall("fft_fast", id, e)

MemIfft ==
  /\ CanCall
  /\ \E id \in mem.known :
       /\ mem.heap[id].ndim = 1
       /\ \E e \in {IfftFastMem(mem.heap, Whole(id))} :
            AfterCall("ifft_fast", id, e)

MemStft ==
  /\ CanCall
  /\ \E id \in mem.known :
       /\ mem.heap[id].ndim = 1
       /\ mem.heap[id].dtype = "float64"
       /\ \E e \in {StftMem(mem.heap, Whole(id), mem.window_size,
                            mem.hop_size, mem.fft_size)} :
            AfterCall("compute_stft_frames", id, e)

MemIstft ==
  /\ CanCall
  /\ \E id \in mem.known :
       /\ mem.heap[id].ndim = 2
       /\ mem.heap[id].dtype = "complex128"
       /\ \E e \in {IstftMem(mem.heap, Whole(id), mem.window_size,
                             mem.hop_size)} :
            AfterCall("inverse_stft", id, e)

MemSpectrogram ==
  /\ CanCall
  /\ \E id \in mem.known :
       /\ mem.heap[id].ndim = 1
       /\ mem.heap[id].dtype = "float64"
       /\ \E e \in {SpectrogramMem(mem.heap, Whole(id), mem.sample_rate,
                                   mem.window_size, mem.hop_size,
                                   mem.fft_size)} :
            AfterCall("compute_spectrogram", id, e)

\* the caller overwrites the first element of a 1-D array it holds
CallerWrite ==
  /\ CanCall
  /\ \E id \in mem.known :
       /\ mem.heap[id].ndim = 1
       /\ Size(mem.heap[id].val) > 0
       /\ LET zero == IF mem.heap[id].dtype = "float64" THEN R(0) ELSE CZero
              val == [mem.heap[id].val EXCEPT ![0] = zero]
          IN  mem' = [mem EXCEPT !.heap[id].val = val,
                                 !.orig[id] = val,
                                 !.calls = @ + 1,
                                 !.last = [NoCall EXCEPT !.fn = "write",
                                                         !.arg = id,
                                                         !.before = Len(mem.heap)]]
  /\ UNCHANGED <<rest, sgram, hannRes, http, par, x, fftRes, ifftRes, rtRes, lin,
                 stft, istft>>

NextMem ==
  \/ MemFft \/ MemIfft \/ MemStft \/ MemIstft \/ MemSpectrogram
  \/ CallerWrite

SpecMem == InitMem /\ [][NextMem]_vars

(***************************************************************************)
(* Properties of the kernel's use of memory.                               *)
(***************************************************************************)
\* C18: after any sequence of calls every array the caller holds (its
\* inputs and the results of earlier calls) still has the values the caller
\* last saw in it; every array a call returns is a buffer that did not
\* exist before the call, so a write to it changes nothing else; and two
\* calls of one function on equal arguments have equal outcomes.
C18_Purity ==
  mem.pc = "run" =>
    /\ \A id \in mem.known : mem.heap[id].val = mem.orig[id]
    /\ \A b \in mem.last.ret : b > mem.last.before
    /\ \A i, k \in DOMAIN mem.log :
         (/\ mem.log[i].fn = mem.log[k].fn
          /\ mem.log[i].dtype = mem.log[k].dtype
          /\ mem.log[i].ndim = mem.log[k].ndim
          /\ mem.log[i].arg = mem.log[k].arg) =>
           /\ mem.log[i].err = mem.log[k].err
           /\ mem.log[i].out = mem.log[k].out

\* fft_fast has returned on the caller's complex128 array (which np.asarray
\* hands to the transform unconverted), after the caller wrote to the
\* result of an earlier fft_fast of the same array
C18_Witness ==
  /\ mem.pc = "run"
  /\ mem.calls = 3
  /\ mem.log[1].fn = "fft_fast" /\ mem.log[1].dtype = "complex128"
  /\ mem.log[1].err = ""
  /\ mem.last.fn = "fft_fast" /\ mem.last.arg = 1 /\ mem.last.ret # {}
  /\ Len(mem.log) = 2
  /\ mem.heap[1].val # mem.log[2].out[1]

(***************************************************************************)
(* Properties of the errors of the kernel (under SpecStft).                *)
(***************************************************************************)
\* the message the kernel raises for each kind of failure, one failing
\* call per kind
KernelErrors ==
  [fft_length |-> FftFast(RealArr(<<1, 1, 1>>)).err,
   ifft_length |-> IfftFast(RealArr(<<1, 1, 1>>)).err,
   window_size |-> HannWindowErr(1),
   fft_ge_window |-> ValidateFftParams(2, 1, 1),
   hop_positive |-> ValidateFftParams(2, 0, 2),
   fft_power_of_two |-> ValidateFftParams(2, 1, 3),
   signal_length |-> StftRun(StftCall(EmptyArr, 2, 1, 2)).err]

\* the message expected of a call of compute_stft_frames: that of the first
\* violated constraint in the order F >= W, H > 0, F a power of two,
\* L >= W, then W > 1
FirstViolated(s) ==
  IF s.fft_size < s.window_size THEN "fft_size must be >= window_size"
  ELSE IF s.hop_size <= 0 THEN "hop_size must be positive"
  ELSE IF ~PowerOfTwoLength(s.fft_size)
  THEN "fft_size must be a power of two for fft_fast"
  ELSE IF Size(s.signal) < s.window_size
  THEN "signal must be at least as long as window_size"
  ELSE IF s.window_size <= 1 THEN "window_size must be greater than 1"
  ELSE ""

\* C19: the errors of a non-power-of-two transform length (forward and
\* inverse), of a window size <= 1 and of each of the four STFT constraints
\* are non-empty and pairwise different, and a call of compute_stft_frames
\* that violates several constraints reports the first violated in the
\* order fft_size >= window_size, hop_size > 0, fft_size a power of two,
\* signal length >= window_size.
C19_DistinctOrderedErrors ==
  /\ Cardinality({KernelErrors[k] : k \in DOMAIN KernelErrors}) = 7
  /\ \A k \in DOMAIN KernelErrors : KernelErrors[k] # ""
  /\ stft.pc = "raised" => stft.err = FirstViolated(stft)
  /\ stft.pc \in {"loop", "returned"} => FirstViolated(stft) = ""

\* a call that violates all four constraints (F = 3 < W = 4, H = 0, L = 2)
\* has reported the first
C19_Witness ==
  /\ stft.pc = "raised"
  /\ stft.fft_size = 3 /\ stft.window_size = 4 /\ stft.hop_size = 0
  /\ Size(stft.signal) = 2
  /\ stft.err = "fft_size must be >= window_size"

(***************************************************************************)
(* SpecPar: inverse_stft with its loop spread over one worker per row.     *)
(* par.s holds the arguments and the shared buffers, par.w the workers.    *)
(***************************************************************************)
ParMaxRows == 3

InitPar ==
  /\ RestIdle
  /\ x = EmptyArr
  /\ fftRes = NotCalled
  /\ ifftRes = NotCalled
  /\ rtRes = NotCalled
  /\ lin = LinIdle
  /\ stft = StftIdle
  /\ istft = IstftIdle
  /\ sgram = SgramIdle
  /\ hannRes = HannIdle
  /\ http = HttpIdle
  /\ mem = MemIdle
  /\ \E w \in 1 .. MaxWin, h \in 0 .. MaxHop, r \in 1 .. ParMaxRows,
        c \in 1 .. MaxFft :
       \E row \in RowSamples(c) :
         par = [s |-> IstftCall(2, r, c, [k \in 0 .. r - 1 |-> row], w, h),
                w |-> [k \in 0 .. r - 1 |-> WorkerStart]]

ParUnchanged ==
  UNCHANGED <<rest, sgram, hannRes, http, mem, x, fftRes, ifftRes, rtRes, lin,
              stft, istft>>

\* inverse_stft, lines 63-71, before the workers start
ParEnter ==
  /\ par.s.pc = "call"
  /\ par' = [par EXCEPT !.s = IstftEnterStep(par.s)]
  /\ ParUnchanged

\* line 74: time_domain = ifft_fast(frames[frame_idx]), and the term of
\* line 77
WorkerIfft ==
  /\ par.s.pc = "loop"
  /\ \E k \in DOMAIN par.w :
       /\ par.w[k].pc = "ifft"
       /\ LET td == IfftFast(par.s.frames[k])
          IN  par' = [par EXCEPT
                        !.w[k].pc = "read_output",
                        !.w[k].term = OverlapTerm(td.val, par.s.hann,
                                                  par.s.window_size),
                        !.s.iffts = @ + 1]
  /\ ParUnchanged

\* line 77, output[start:end] += ...: the read of the slice
WorkerReadOutput ==
  /\ par.s.pc = "loop"
  /\ \E k \in DOMAIN par.w :
       /\ par.w[k].pc = "read_output"
       /\ LET start == RowStart(k, par.s.hop_size)
          IN  par' = [par EXCEPT
                        !.w[k].pc = "write_output",
                        !.w[k].snap = Slice(par.s.output, start,
                                            start + par.s.window_size)]
  /\ ParUnchanged

\* line 77: the write of the sum
WorkerWriteOutput ==
  /\ par.s.pc = "loop"
  /\ \E k \in DOMAIN par.w :
       /\ par.w[k].pc = "write_output"
       /\ par' = [par EXCEPT
                    !.w[k].pc = "read_accum",
                    !.s.output = PutAt(@, RowStart(k, par.s.hop_size),
                                       AddSlices(par.w[k].snap,
                                                 par.w[k].term))]
  /\ ParUnchanged

\* line 78, window_accum[start:end] += hann: the read of the slice
WorkerReadAccum ==
  /\ par.s.pc = "loop"
  /\ \E k \in DOMAIN par.w :
       /\ par.w[k].pc = "read_accum"
       /\ LET start == RowStart(k, par.s.hop_size)
          IN  par' = [par EXCEPT
                        !.w[k].pc = "write_accum",
                        !.w[k].snap = Slice(par.s.window_accum, start,
                                            start + par.s.window_size)]
  /\ ParUnchanged

\* line 78: the write of the sum
WorkerWriteAccum ==
  /\ par.s.pc = "loop"
  /\ \E k \in DOMAIN par.w :
       /\ par.w[k].pc = "write_accum"
       /\ par' = [par EXCEPT
                    !.w[k].pc = "done",
                    !.s.frame_idx = @ + 1,
                    !.s.window_accum = PutAt(@, RowStart(k, par.s.hop_size),
                                             AddSlices(par.w[k].snap,
                                                       par.s.hann))]
  /\ ParUnchanged

\* lines 80-82, once every worker has finished
ParJoin ==
  /\ par.s.pc = "loop"
  /\ \A k \in DOMAIN par.w : par.w[k].pc = "done"
  /\ par' = [par EXCEPT !.s = IstftReturnStep(par.s)]
  /\ ParUnchanged

NextPar ==
  \/ ParEnter
  \/ WorkerIfft
  \/ WorkerReadOutput \/ WorkerWriteOutput
  \/ WorkerReadAccum \/ WorkerWriteAccum
  \/ ParJoin

SpecPar == InitPar /\ [][NextPar]_vars

(***************************************************************************)
(* Properties of the concurrent overlap-add.                               *)
(***************************************************************************)
\* what the sequential loop returns for the call of par.s
SequentialOutput ==
  IstftRun(IstftCall(par.s.ndim, par.s.rows, par.s.cols, par.s.frames,
                     par.s.window_size, par.s.hop_size)).output

\* C20 as stated: whatever the interleaving of the workers' unsynchronized
\* read-modify-write additions, the final output equals the output of the
\* sequential loop.
C20_AnyInterleaving ==
  par.s.pc = "returned" => par.s.output = SequentialOutput

\* C20 as amended: the final output equals the output of the sequential
\* loop in every interleaving provided no two rows write the same position,
\* that is H >= W (or there is a single row).
C20_DisjointRows ==
  (/\ par.s.pc = "returned"
   /\ (par.s.hop_size >= par.s.window_size \/ par.s.rows <= 1)) =>
    par.s.output = SequentialOutput

\* three workers on disjoint rows (W = 2, H = 2) have finished after running
\* interleaved, and the output is that of the loop
C20_Witness ==
  /\ par.s.pc = "returned"
  /\ par.s.rows = 3 /\ par.s.window_size = 2 /\ par.s.hop_size = 2
  /\ par.s.cols = 4
  /\ Size(par.s.output) = 6
  /\ par.s.output = SequentialOutput
  /\ par.s.output[0] # R(0)

(***************************************************************************)
(* _fft_fast_impl by steps.  The samples are symbols ("x0", "x1", ...) and *)
(* a butterfly builds the term it computes, so the kernel runs at lengths  *)
(* whose twiddles are irrational.  core is the frame of one call: the call *)
(* path that led to it, the locals of lines 21-49, and a record of the     *)
(* indices and swaps the run made.                                         *)
(***************************************************************************)
MaxLog == 3        \* the kernel runs on lengths up to 2^MaxLog
MaxCoreLen == 2 ^ MaxLog

\* the input array of the kernel: one symbol per sample
Symbols(N) == [k \in 0 .. N - 1 |-> "x" \o ToString(k)]

\* w after k executions of "w *= wlen" in a stage of the given length
Twiddle(k, length) == "w" \o ToString(length) \o "^" \o ToString(k)

\* u + v and u - v with v = w * X[i + j + half]           (lines 45-47)
Upper(u, w, t) == "(" \o u \o "+" \o w \o "*" \o t \o ")"
Lower(u, w, t) == "(" \o u \o "-" \o w \o "*" \o t \o ")"

\* the frame of _fft_fast_impl after lines 21-24
CoreCall(path, N, order) ==
  [pc |-> "for", path |-> path, order |-> order, err |-> "", N |-> N,
   x |-> Symbols(N), X |-> Symbols(N), i |-> 1, j |-> 0, bit |-> 0,
   swaps |-> <<>>, length |-> 0, X0 |-> Symbols(N), todo |-> {},
   held |-> {}, reordered |-> FALSE, stages |-> <<>>, touched |-> {}]

\* a call path that ended before the kernel: a raise, or no frame to transform
CoreEnded(pc, path, err) ==
  [CoreCall(path, 0, "sequential") EXCEPT !.pc = pc, !.err = err]

\* faulty variant: after the inner loop j is not advanced by bit
CoreWhileStepNoAdd(c) ==
  IF c.j >= c.bit /\ c.bit > 0
  THEN [c EXCEPT !.j = @ - c.bit, !.bit = @ \div 2]
  ELSE [c EXCEPT !.pc = "swap"]

\* line 25-26: for i in range(1, N): bit = N >> 1
CoreForStep(c) ==
  IF c.i < c.N THEN [c EXCEPT !.pc = "while", !.bit = c.N \div 2]
  ELSE [c EXCEPT !.pc = "stage", !.length = 2]

\* lines 27-30: one test of the inner while; j += bit when it fails
CoreWhileStep(c) ==
  IF c.j >= c.bit /\ c.bit > 0
  THEN [c EXCEPT !.j = @ - c.bit, !.bit = @ \div 2]
  ELSE [c EXCEPT !.pc = "swap", !.j = @ + c.bit]

\* lines 31-34: the swap of X[i] and X[j]; an index outside the array is a
\* fault (the compiled kernel does not check bounds)
CoreSwapStep(c) ==
  IF c.i >= c.j THEN [c EXCEPT !.i = @ + 1, !.pc = "for"]
  ELSE IF c.j >= c.N
  THEN [c EXCEPT !.pc = "fault", !.touched = @ \cup {c.i, c.j}]
  ELSE [c EXCEPT !.X = [@ EXCEPT ![c.i] = c.X[c.j], ![c.j] = c.X[c.i]],
                 !.swaps = Append(@, <<c.i, c.j>>),
                 !.touched = @ \cup {c.i, c.j},
                 !.i = @ + 1, !.pc = "for"]

\* faulty variant: the blocks of a stage start every half instead of every length
StageButterfliesHalfStep(length, N) ==
  {<<i, j>> \in (0 .. N - 1) \X (0 .. (length \div 2) - 1) :
     i % (length \div 2) = 0}

\* lines 40-43: the iterations <<i, j>> of one stage,
\* for i in range(0, N, length) and j in range(half)
StageButterflies(length, N) ==
  {<<i, j>> \in (0 .. N - 1) \X (0 .. (length \div 2) - 1) : i % length = 0}

\* line 37: while length <= N
CoreStageStep(c) ==
  IF c.length <= c.N
  THEN [c EXCEPT !.pc = "bfly", !.X0 = c.X, !.touched = {},
                 !.todo = StageButterflies(c.length, c.N),
                 !.held = {}, !.reordered = FALSE]
  ELSE [c EXCEPT !.pc = "returned"]

\* lines 44-45: butterfly b reads u and X[i + j + half]
CoreReadStep(c, b) ==
  LET lo == b[1] + b[2]
      hi == b[1] + b[2] + (c.length \div 2)
  IN  IF hi >= c.N
      THEN [c EXCEPT !.pc = "fault", !.touched = @ \cup {lo, hi}]
      ELSE [c EXCEPT !.todo = @ \ {b},
                     !.touched = @ \cup {lo, hi},
                     !.held = @ \cup {[b |-> b, u |-> c.X[lo], t |-> c.X[hi]]}]

\* lines 46-48: butterfly h.b writes X[i + j] and X[i + j + half]; the run
\* is reordered when a butterfly the loops run earlier has not yet written
CoreWriteStep(c, h) ==
  LET lo == h.b[1] + h.b[2]
      hi == h.b[1] + h.b[2] + (c.length \div 2)
      w == Twiddle(h.b[2], c.length)
  IN  [c EXCEPT !.X = [@ EXCEPT ![lo] = Upper(h.u, w, h.t),
                                ![hi] = Lower(h.u, w, h.t)],
                !.held = @ \ {h},
                !.reordered = @ \/ \E o \in c.todo \cup {g.b : g \in c.held} :
                                      o[1] + o[2] < lo]

\* line 49: length *= 2
CoreDoubleStep(c) ==
  [c EXCEPT !.pc = "stage", !.stages = Append(@, c.length), !.length = @ * 2]

\* lines 43-48 as the loop runs them: the butterflies of one block
RECURSIVE StagePairs(_, _, _, _, _, _)
StagePairs(X, i, j, half, w, length) ==
  IF j >= half THEN X
  ELSE LET u == X[i + j]
           t == X[i + j + half]
       IN  StagePairs(
             [X EXCEPT ![i + j] = Upper(u, Twiddle(w, length), t),
                       ![i + j + half] = Lower(u, Twiddle(w, length), t)],
             i, j + 1, half, w + 1, length)

\* lines 40-48 as the loop runs them: the blocks of one stage
RECURSIVE StageBlocks(_, _, _, _)
StageBlocks(X, i, length, N) ==
  IF i >= N THEN X
  ELSE StageBlocks(StagePairs(X, i, 0, length \div 2, 0, length),
                   i + length, length, N)

\* the arguments of an entry point, as far as they decide the call path
CoreArgs ==
  [n : 0 .. MaxCoreLen, rows : 0 .. 1, window_size : 1 .. 3,
   hop_size : 0 .. 1, fft_size : {0, 2, 3, MaxCoreLen \div 2, MaxCoreLen}]

\* fft_fast, lines 66-69
CoreFftFast(path, n, order) ==
  IF ~IsPowerOfTwo(n)
  THEN CoreEnded("raised", Append(path, "fft_fast"),
                 "fft_fast requires input length to be a power of two")
  ELSE CoreCall(path \o <<"fft_fast", "_fft_fast_impl">>, n, order)

\* ifft_fast, lines 74-77, and _ifft_fast_impl, lines 57-59
CoreIfftFast(path, n, order) ==
  IF ~IsPowerOfTwo(n)
  THEN CoreEnded("raised", Append(path, "ifft_fast"),
                 "ifft_fast requires input length to be a power of two")
  ELSE CoreCall(path \o <<"ifft_fast", "_ifft_fast_impl", "_fft_fast_impl">>,
                n, order)

\* compute_stft_frames on a signal of a.n samples, up to the first frame
CoreStft(path, a, order) ==
  LET v == ValidateFftParams(a.window_size, a.hop_size, a.fft_size)
      here == Append(path, "compute_stft_frames")
  IN  IF v # "" THEN CoreEnded("raised", here, v)
      ELSE IF a.n < a.window_size
      THEN CoreEnded("raised", here,
                     "signal must be at least as long as window_size")
      ELSE IF HannWindowErr(a.window_size) # ""
      THEN CoreEnded("raised", here, HannWindowErr(a.window_size))
      ELSE CoreFftFast(here, a.fft_size, order)

\* inverse_stft on a.rows frames of a.n bins, up to the first frame
CoreIstft(path, a, order) ==
  LET v == ValidateFftParams(a.window_size, a.hop_size, a.n)
      here == Append(path, "inverse_stft")
  IN  IF v # "" THEN CoreEnded("raised", here, v)
      ELSE IF HannWindowErr(a.window_size) # ""
      THEN CoreEnded("raised", here, HannWindowErr(a.window_size))
      ELSE IF a.rows = 0 THEN CoreEnded("skipped", here, "")
      ELSE CoreIfftFast(here, a.n, order)

\* the public entry points: the four functions and the four DSP handlers
CoreEntries ==
  {"fft_fast", "ifft_fast", "compute_stft_frames", "inverse_stft",
   "POST /fft", "POST /ifft", "POST /stft", "POST /istft"}

\* the frame an entry point leaves when it is called with arguments a
CoreEntry(entry, a, order) ==
  CASE entry = "fft_fast" -> CoreFftFast(<<>>, a.n, order)
    [] entry = "ifft_fast" -> CoreIfftFast(<<>>, a.n, order)
    [] entry = "compute_stft_frames" -> CoreStft(<<>>, a, order)
    [] entry = "inverse_stft" -> CoreIstft(<<>>, a, order)
    [] entry = "POST /fft" -> CoreFftFast(<<entry>>, a.n, order)
    [] entry = "POST /ifft" -> CoreIfftFast(<<entry>>, a.n, order)
    [] entry = "POST /stft" ->
         IF OptionErrors(a) # {} THEN CoreEnded("raised", <<entry>>, "422")
         ELSE CoreStft(<<entry>>, a, order)
    [] entry = "POST /istft" ->
         IF OptionErrors(a) # {} THEN CoreEnded("raised", <<entry>>, "422")
         ELSE CoreIstft(<<entry>>, a, order)

(***************************************************************************)
(* SpecCore: one call of an entry point that reaches, or does not reach,   *)
(* _fft_fast_impl.  The first loop runs as written.  The butterflies of a  *)
(* stage run either in the order of the loops (order = "sequential") or    *)
(* one read and one write at a time in any order (order = "any").          *)
(***************************************************************************)
InitCore ==
  /\ RestIdle
  /\ MoreIdle
  /\ x = EmptyArr
  /\ fftRes = NotCalled
  /\ ifftRes = NotCalled
  /\ rtRes = NotCalled
  /\ lin = LinIdle
  /\ stft = StftIdle
  /\ istft = IstftIdle

CoreUnchanged ==
  UNCHANGED <<dmx, chk, trl, more, x, fftRes, ifftRes, rtRes, lin, stft, istft>>

CoreEnter ==
  /\ core.pc = "idle"
  /\ \E entry \in CoreEntries, a \in CoreArgs, order \in {"sequential", "any"} :
       core' = CoreEntry(entry, a, order)
  /\ CoreUnchanged

CoreFor ==
  /\ core.pc = "for"
  /\ core' = CoreForStep(core)
  /\ CoreUnchanged

CoreWhile ==
  /\ core.pc = "while"
  /\ core' = CoreWhileStep(core)
  /\ CoreUnchanged

CoreSwap ==
  /\ core.pc = "swap"
  /\ core' = CoreSwapStep(core)
  /\ CoreUnchanged

CoreStage ==
  /\ core.pc = "stage"
  /\ core' = CoreStageStep(core)
  /\ CoreUnchanged

\* the next butterfly of the loops is the one with the least i + j
CoreRead ==
  /\ core.pc = "bfly"
  /\ \E b \in core.todo :
       /\ core.order = "sequential" =>
            /\ core.held = {}
            /\ \A o \in core.todo : b[1] + b[2] <= o[1] + o[2]
       /\ core' = CoreReadStep(core, b)
  /\ CoreUnchanged

CoreWrite ==
  /\ core.pc = "bfly"
  /\ \E h \in core.held : core' = CoreWriteStep(core, h)
  /\ CoreUnchanged

CoreDouble ==
  /\ core.pc = "bfly"
  /\ core.todo = {}
  /\ core.held = {}
  /\ core' = CoreDoubleStep(core)
  /\ CoreUnchanged

NextCore ==
  \/ CoreEnter
  \/ CoreFor
  \/ CoreWhile
  \/ CoreSwap
  \/ CoreStage
  \/ CoreRead
  \/ CoreWrite
  \/ CoreDouble

SpecCore == InitCore /\ [][NextCore]_vars

(***************************************************************************)
(* Properties of the step-level kernel.                                    *)
(***************************************************************************)
\* the index whose low log2(N) bits are those of i in reverse
RECURSIVE Rev(_, _)
Rev(i, N) == IF N <= 1 THEN 0 ELSE (i % 2) * (N \div 2) + Rev(i \div 2, N \div 2)

\* the first loop is over: no stage has begun
AfterFirstLoop == core.pc = "stage" /\ core.length = 2

\* C21: in the first loop of _fft_fast_impl the inner while ends with
\* bit > 0 and leaves j = rev(i); when the loop is over X[i] = x[rev(i)]
\* for every i, X is a permutation of x, and the swaps made are exactly the
\* pairs {i, rev(i)} with i < rev(i), each made once.
C21_BitReversal ==
  /\ core.pc = "swap" => core.bit > 0 /\ core.j = Rev(core.i, core.N)
  /\ AfterFirstLoop =>
       /\ \A i \in 0 .. core.N - 1 : core.X[i] = core.x[Rev(i, core.N)]
       /\ \A i \in 0 .. core.N - 1 :
            \E k \in 0 .. core.N - 1 :
              /\ core.X[k] = core.x[i]
              /\ \A m \in 0 .. core.N - 1 : core.X[m] = core.x[i] => m = k
       /\ {core.swaps[k] : k \in DOMAIN core.swaps}
            = {<<i, Rev(i, core.N)>> : i \in {k \in 0 .. core.N - 1 :
                                               k < Rev(k, core.N)}}
       /\ \A k, m \in DOMAIN core.swaps :
            core.swaps[k] = core.swaps[m] => k = m

C21_Witness ==
  /\ AfterFirstLoop
  /\ core.N = MaxCoreLen
  /\ Len(core.swaps) >= 2
  /\ core.X[1] = core.x[MaxCoreLen \div 2]

\* the two indices butterfly b touches in a stage of the given length
Pair(b, length) == {b[1] + b[2], b[1] + b[2] + (length \div 2)}

\* every butterfly of the running stage has written
StageOver == core.pc = "bfly" /\ core.todo = {} /\ core.held = {}

\* C22: the butterfly phase runs the stages length = 2, 4, ..., N in this
\* order, log2(N) of them; the index pairs of the butterflies of one stage
\* are pairwise disjoint and cover 0..N-1, and whatever the order or
\* interleaving of the butterflies the stage leaves the array that the
\* loops of lines 40-48 leave.
C22_IndependentButterflies ==
  /\ core.pc \in {"stage", "bfly", "returned"} =>
       \A k \in DOMAIN core.stages : core.stages[k] = 2 ^ k
  /\ core.pc = "returned" => 2 ^ Len(core.stages) = core.N
  /\ core.pc = "bfly" =>
       LET B == StageButterflies(core.length, core.N)
       IN  /\ \A b \in B : Cardinality(Pair(b, core.length)) = 2
           /\ \A b, o \in B :
                b # o => Pair(b, core.length) \cap Pair(o, core.length) = {}
           /\ UNION {Pair(b, core.length) : b \in B} = 0 .. core.N - 1
  /\ StageOver => core.X = StageBlocks(core.X0, 0, core.length, core.N)

C22_Witness ==
  /\ StageOver
  /\ core.order = "any"
  /\ core.reordered
  /\ core.N = MaxCoreLen
  /\ core.length = core.N
  /\ Len(core.stages) = MaxLog - 1

\* the call path went through the STFT / ISTFT validator
Validated ==
  \E k \in DOMAIN core.path :
    core.path[k] \in {"compute_stft_frames", "inverse_stft"}

\* C23: from every public entry point _fft_fast_impl runs only on an array
\* whose length is a power of two, every index it reads or writes is
\* within 0..N-1, and a call that passed _validate_fft_params is never
\* rejected by the length check of fft_fast or ifft_fast.
C23_CoreGuarded ==
  /\ core.pc \notin {"idle", "raised", "skipped"} =>
       /\ IsPowerOfTwo(core.N)
       /\ core.pc # "fault"
       /\ core.touched \subseteq 0 .. core.N - 1
       /\ core.path[Len(core.path)] = "_fft_fast_impl"
  /\ core.pc = "raised" /\ Validated =>
       /\ core.path[Len(core.path)] \notin {"fft_fast", "ifft_fast"}
       /\ core.err # "fft_fast requires input length to be a power of two"
       /\ core.err # "ifft_fast requires input length to be a power of two"

C23_Witness ==
  /\ core.pc = "returned"
  /\ core.path = <<"POST /stft", "compute_stft_frames", "fft_fast",
                   "_fft_fast_impl">>
  /\ core.N = MaxCoreLen
  /\ core.touched = 0 .. core.N - 1

\* the array has no imaginary part
IsReal(a) == \A k \in DOMAIN a : a[k][2] = R(0)

\* C24: for a real input of power-of-two length N the spectrum of fft_fast
\* is conjugate-symmetric, X[(N - k) mod N] = conj(X[k]) for every k, so
\* X[0] and X[N/2] are real.
C24_ConjugateSymmetric ==
  fftRes.st = "returned" /\ IsReal(x) =>
    LET N == Size(x)
        X == fftRes.val
    IN  /\ \A k \in 0 .. N - 1 : X[(N - k) % N] = CConj(X[k])
        /\ X[0][2] = R(0)
        /\ X[N \div 2][2] = R(0)

C24_Witness ==
  /\ fftRes.st = "returned"
  /\ IsReal(x)
  /\ Size(x) = 4
  /\ fftRes.val[1][2] # R(0)
  /\ fftRes.val[3] = CConj(fftRes.val[1])

(***************************************************************************)
(* services/demucs_service.py: DemucsService.separate_sources, reached     *)
(* from POST /api/audio/separate with the query parameters segment and     *)
(* overlap as they came.  Floats are exact rationals; the mixture is known *)
(* by its length, the result by the set of sample indices a chunk was      *)
(* added to.                                                               *)
(***************************************************************************)
MaxMixLen == 6        \* longest mixture, in samples
MaxSampleRate == 4    \* largest sample rate of the model bundle
MaxCount == MaxMixLen + MaxSampleRate + 2    \* iterations followed per loop

Min(a, b) == IF a < b THEN a ELSE b
Max(a, b) == IF a < b THEN b ELSE a

\* int(p) of a float: truncation toward zero
IntTrunc(p) == IF p[1] >= 0 THEN p[1] \div p[2] ELSE -((-p[1]) \div p[2])

\* the position a slice bound i stands for in a dimension of the given length
SliceBound(i, length) == IF i < 0 THEN Max(i + length, 0) ELSE Min(i, length)

\* the indices of [start:end] in a dimension of the given length
SliceIndices(start, end, length) ==
  {k \in 0 .. length - 1 :
     SliceBound(start, length) <= k /\ k < SliceBound(end, length)}

\* separate_sources, lines 67-80 and 90: the locals before the loops
DmxCall(length, sample_rate, segment, overlap) ==
  LET chunk_len ==
        IntTrunc(RMul(RMul(R(sample_rate), segment), RAdd(R(1), overlap)))
      overlap_frames == RMul(overlap, R(sample_rate))
  IN  [pc |-> "counting", length |-> length, sample_rate |-> sample_rate,
       segment |-> segment, overlap |-> overlap,
       chunk_len |-> chunk_len, start |-> 0, end |-> chunk_len,
       overlap_frames |-> overlap_frames,
       fade_in_len |-> 0, fade_out_len |-> IntTrunc(overlap_frames),
       final |-> {}, total_chunks |-> 0, temp_start |-> 0,
       chunk_num |-> 0, chunks |-> <<>>]

\* the test of both loops: position < length - overlap_frames
DmxTest(c, position) ==
  RLess(R(position), RSub(R(c.length), c.overlap_frames))

\* the advance of both loops, lines 83-86 and 102-106
DmxAdvance(c, position) ==
  IF position = 0
  THEN position + IntTrunc(RSub(R(c.chunk_len), c.overlap_frames))
  ELSE position + c.chunk_len

\* lines 81-86: one test of the counting loop and, if it holds, its body
DmxCountStep(c) ==
  IF DmxTest(c, c.temp_start)
  THEN [c EXCEPT !.total_chunks = @ + 1,
                 !.temp_start = DmxAdvance(c, c.temp_start)]
  ELSE [c EXCEPT !.pc = "processing"]

\* lines 91-110: one test of the processing loop and, if it holds, its body
DmxProcessStep(c) ==
  IF DmxTest(c, c.start)
  THEN [c EXCEPT !.chunk_num = @ + 1,
                 !.chunks = Append(@, <<c.start, c.end>>),
                 !.final = @ \cup SliceIndices(c.start, c.end, c.length),
                 !.fade_in_len = IF c.start = 0
                                 THEN IntTrunc(c.overlap_frames) ELSE @,
                 !.start = DmxAdvance(c, c.start),
                 !.end = @ + c.chunk_len,
                 !.fade_out_len = IF c.end + c.chunk_len >= c.length
                                  THEN 0 ELSE @]
  ELSE [c EXCEPT !.pc = "returned"]

\* main.py, separate_audio_file: segment and overlap are any floats
DmxSegments == {R(-1), R(0), Rat(1, 2), R(1), R(2)}
DmxOverlaps == {Rat(-1, 2), R(0), Rat(1, 4), Rat(1, 2), R(1)}

(***************************************************************************)
(* SpecDmx: one call of separate_sources.  A loop is followed for at most  *)
(* MaxCount iterations.                                                    *)
(***************************************************************************)
InitDmx ==
  /\ MoreIdle
  /\ core = CoreIdle
  /\ chk = ChkIdle
  /\ trl = TrlIdle
  /\ dmx = DmxIdle
  /\ x = EmptyArr
  /\ fftRes = NotCalled
  /\ ifftRes = NotCalled
  /\ rtRes = NotCalled
  /\ lin = LinIdle
  /\ stft = StftIdle
  /\ istft = IstftIdle

DmxUnchanged ==
  UNCHANGED <<core, chk, trl, more, x, fftRes, ifftRes, rtRes, lin, stft, istft>>

DmxEnter ==
  /\ dmx.pc = "idle"
  /\ \E length \in 0 .. MaxMixLen, sample_rate \in 1 .. MaxSampleRate,
        segment \in DmxSegments, overlap \in DmxOverlaps :
       dmx' = DmxCall(length, sample_rate, segment, overlap)
  /\ DmxUnchanged

DmxCount ==
  /\ dmx.pc = "counting"
  /\ dmx.total_chunks < MaxCount
  /\ dmx' = DmxCountStep(dmx)
  /\ DmxUnchanged

DmxProcess ==
  /\ dmx.pc = "processing"
  /\ dmx.chunk_num < MaxCount
  /\ dmx' = DmxProcessStep(dmx)
  /\ DmxUnchanged

NextDmx == DmxEnter \/ DmxCount \/ DmxProcess

SpecDmx == InitDmx /\ [][NextDmx]_vars

\* the counting loop is at an iteration that leaves temp_start where it is
\* while the test holds: every later iteration is the same
CountingRepeats ==
  /\ dmx.pc = "counting"
  /\ dmx.total_chunks > 0
  /\ DmxTest(dmx, dmx.temp_start)
  /\ DmxAdvance(dmx, dmx.temp_start) = dmx.temp_start

\* the same for the processing loop and its start and end
ProcessingRepeats ==
  /\ dmx.pc = "processing"
  /\ dmx.chunk_num > 0
  /\ DmxTest(dmx, dmx.start)
  /\ DmxAdvance(dmx, dmx.start) = dmx.start
  /\ dmx.chunk_len = 0

\* C25: separate_sources terminates for every mixture length and every
\* segment and overlap the endpoint passes on, so neither loop comes to an
\* iteration that repeats itself.
C25_LoopsExit == ~CountingRepeats /\ ~ProcessingRepeats

\* C26: for a mixture of length >= 1 with segment > 0 and overlap >= 0 the
\* chunks processed cover every sample index 0..length-1, each chunk after
\* the first begins inside the chunk before it, and as many chunks are
\* processed as total_chunks counted.
C26_ChunksCover ==
  /\ dmx.pc = "returned"
  /\ dmx.length >= 1
  /\ RLess(R(0), dmx.segment)
  /\ ~RLess(dmx.overlap, R(0))
  => /\ dmx.final = 0 .. dmx.length - 1
     /\ \A k \in 2 .. Len(dmx.chunks) :
          /\ dmx.chunks[k - 1][1] <= dmx.chunks[k][1]
          /\ dmx.chunks[k][1] < dmx.chunks[k - 1][2]
     /\ dmx.chunk_num = dmx.total_chunks

\* a mixture no longer than the overlap: neither loop is entered
NoChunkAtAll ==
  /\ dmx.pc = "returned"
  /\ dmx.length >= 1
  /\ RLess(R(0), dmx.segment)
  /\ RLess(R(0), dmx.overlap)
  /\ dmx.chunks = <<>>
  /\ dmx.final = {}

\* apart from such mixtures and from overlap = 0 the chunks do cover
CoversWhenLongEnough ==
  /\ dmx.pc = "returned"
  /\ RLess(R(0), dmx.segment)
  /\ RLess(R(0), dmx.overlap)
  /\ RLess(dmx.overlap_frames, R(dmx.length))
  => /\ dmx.final = 0 .. dmx.length - 1
     /\ \A k \in 2 .. Len(dmx.chunks) :
          /\ dmx.chunks[k - 1][1] <= dmx.chunks[k][1]
          /\ dmx.chunks[k][1] < dmx.chunks[k - 1][2]
     /\ dmx.chunk_num = dmx.total_chunks

(***************************************************************************)
(* services/base_audio_service.py: AudioChunker.calculate_chunks.          *)
(***************************************************************************)
MaxChunkArg == 5     \* largest total_length, chunk_size and overlap_frames
MaxChunks == 2 * MaxChunkArg + 2    \* iterations followed

\* calculate_chunks, lines 310-311: the locals before the loop
ChkCall(total_length, chunk_size, overlap_frames) ==
  [pc |-> "loop", total_length |-> total_length, chunk_size |-> chunk_size,
   overlap_frames |-> overlap_frames, chunks |-> <<>>, start |-> 0]

\* line 313: the loop test
ChkTest(c) == c.start < c.total_length - c.overlap_frames

\* line 314: end = min(start + chunk_size, total_length)
ChkEnd(c) == Min(c.start + c.chunk_size, c.total_length)

\* lines 321-324: the advance of start
ChkAdvance(c) ==
  IF c.start = 0 THEN c.start + (c.chunk_size - c.overlap_frames)
  ELSE c.start + c.chunk_size

\* lines 313-326: one test of the loop and, if it holds, its body
ChkStep(c) ==
  IF ~ChkTest(c) THEN [c EXCEPT !.pc = "returned"]
  ELSE IF ChkEnd(c) >= c.total_length
  THEN [c EXCEPT !.pc = "returned",
                 !.chunks = Append(@, <<c.start, ChkEnd(c)>>)]
  ELSE [c EXCEPT !.chunks = Append(@, <<c.start, ChkEnd(c)>>),
                 !.start = ChkAdvance(c)]

(***************************************************************************)
(* SpecChk: one call of calculate_chunks with non-negative integers.  The  *)
(* loop is followed for at most MaxChunks iterations.                      *)
(***************************************************************************)
InitChk ==
  /\ MoreIdle
  /\ core = CoreIdle
  /\ dmx = DmxIdle
  /\ trl = TrlIdle
  /\ chk = ChkIdle
  /\ x = EmptyArr
  /\ fftRes = NotCalled
  /\ ifftRes = NotCalled
  /\ rtRes = NotCalled
  /\ lin = LinIdle
  /\ stft = StftIdle
  /\ istft = IstftIdle

ChkUnchanged ==
  UNCHANGED <<core, dmx, trl, more, x, fftRes, ifftRes, rtRes, lin, stft, istft>>

ChkEnter ==
  /\ chk.pc = "idle"
  /\ \E total_length, chunk_size, overlap_frames \in 0 .. MaxChunkArg :
       chk' = ChkCall(total_length, chunk_size, overlap_frames)
  /\ ChkUnchanged

ChkLoop ==
  /\ chk.pc = "loop"
  /\ Len(chk.chunks) < MaxChunks
  /\ chk' = ChkStep(chk)
  /\ ChkUnchanged

NextChk == ChkEnter \/ ChkLoop

SpecChk == InitChk /\ [][NextChk]_vars

\* C27: in the list calculate_chunks returns, every chunk after the first
\* starts overlap_frames before the end of the chunk before it.
C27_ExactOverlap ==
  chk.pc = "returned" =>
    \A k \in 2 .. Len(chk.chunks) :
      chk.chunks[k][1] = chk.chunks[k - 1][2] - chk.overlap_frames

\* what the list does satisfy: the second chunk starts overlap_frames
\* before the end of the first, every later chunk where the previous ends
ChunksAbut ==
  chk.pc = "returned" =>
    \A k \in 2 .. Len(chk.chunks) :
      chk.chunks[k][1] = chk.chunks[k - 1][2]
                           - (IF k = 2 THEN chk.overlap_frames ELSE 0)

\* the loop is at an iteration that does not exit
ChkGoesOn == chk.pc = "loop" /\ ChkTest(chk) /\ ChkEnd(chk) < chk.total_length

\* C28: calculate_chunks terminates for all non-negative total_length,
\* chunk_size and overlap_frames: every iteration that does not exit
\* leaves start strictly larger than it found it.
C28_StartIncreases == ChkGoesOn => ChkAdvance(chk) > chk.start

\* where it does hold: chunk_size above overlap_frames
IncreasesWhenLarger ==
  ChkGoesOn /\ chk.chunk_size > chk.overlap_frames =>
    ChkAdvance(chk) > chk.start

(***************************************************************************)
(* services/dprnn_service.py: DPRNNService.__init__ and the global         *)
(* torch.load.  torch.load is known by the number of patched_load closures *)
(* wrapped around the original function: 0 is the original, and a closure  *)
(* made while torch.load = k is k + 1.  get_dprnn_service constructs the   *)
(* service again as long as no instance exists.                            *)
(***************************************************************************)
MaxCtorCalls == 3     \* most calls of DPRNNService() followed

\* the process before DPRNNService() was ever called
TrlStart ==
  [pc |-> "idle", torch_load |-> 0, original_load |-> 0, found |-> 0,
   calls |-> 0, instance |-> FALSE, err |-> "", seen |-> "none"]

\* lines 27-39: the constructor is entered; the asteroid path may be missing
TrlEnterStep(t, exists) ==
  IF ~exists
  THEN [t EXCEPT !.pc = "raised", !.err = "FileNotFoundError",
                 !.calls = @ + 1, !.found = t.torch_load]
  ELSE [t EXCEPT !.pc = "import", !.err = "", !.calls = @ + 1,
                 !.found = t.torch_load]

\* line 42 under the try: from model import MultiDecoderDPRNN
TrlImportStep(t, ok) ==
  IF ok THEN [t EXCEPT !.pc = "patch"]
  ELSE [t EXCEPT !.pc = "raised", !.err = "ImportError"]

\* lines 51-55: original_load = torch.load; torch.load = patched_load
TrlPatchStep(t) ==
  [t EXCEPT !.pc = "load", !.original_load = t.torch_load,
            !.torch_load = t.torch_load + 1]

\* lines 57-60 and 68-70: from_pretrained returns and torch.load is put
\* back, or it raises and the handler logs and re-raises
TrlLoadStep(t, ok) ==
  IF ok THEN [t EXCEPT !.pc = "move", !.torch_load = t.original_load]
  ELSE [t EXCEPT !.pc = "raised", !.err = "from_pretrained failed"]

\* lines 63-70: self.model.to(self.device), then the constructor returns
TrlMoveStep(t, ok) ==
  IF ok THEN [t EXCEPT !.pc = "returned", !.instance = TRUE]
  ELSE [t EXCEPT !.pc = "raised", !.err = "model.to failed"]

\* a later caller of torch.load(..., weights_only=True): patched_load
\* overrides the keyword, the original function honours it
TrlObserve(t) ==
  [t EXCEPT !.seen = IF t.torch_load > 0 THEN "patched" ELSE "original"]

(***************************************************************************)
(* SpecTrl: the calls of DPRNNService() one process makes, and the other   *)
(* callers of torch.load between them.                                     *)
(***************************************************************************)
InitTrl ==
  /\ MoreIdle
  /\ core = CoreIdle
  /\ dmx = DmxIdle
  /\ chk = ChkIdle
  /\ trl = TrlStart
  /\ x = EmptyArr
  /\ fftRes = NotCalled
  /\ ifftRes = NotCalled
  /\ rtRes = NotCalled
  /\ lin = LinIdle
  /\ stft = StftIdle
  /\ istft = IstftIdle

TrlUnchanged ==
  UNCHANGED <<core, dmx, chk, more, x, fftRes, ifftRes, rtRes, lin, stft, istft>>

\* get_dprnn_service, lines 196-198, or a direct DPRNNService()
TrlEnter ==
  /\ trl.pc \in {"idle", "raised", "returned"}
  /\ trl.calls < MaxCtorCalls
  /\ \E exists \in BOOLEAN : trl' = TrlEnterStep(trl, exists)
  /\ TrlUnchanged

TrlImport ==
  /\ trl.pc = "import"
  /\ \E ok \in BOOLEAN : trl' = TrlImportStep(trl, ok)
  /\ TrlUnchanged

TrlPatch ==
  /\ trl.pc = "patch"
  /\ trl' = TrlPatchStep(trl)
  /\ TrlUnchanged

TrlLoad ==
  /\ trl.pc = "load"
  /\ \E ok \in BOOLEAN : trl' = TrlLoadStep(trl, ok)
  /\ TrlUnchanged

TrlMove ==
  /\ trl.pc = "move"
  /\ \E ok \in BOOLEAN : trl' = TrlMoveStep(trl, ok)
  /\ TrlUnchanged

TrlOtherCaller ==
  /\ trl.pc \in {"idle", "raised", "returned"}
  /\ trl' = TrlObserve(trl)
  /\ TrlUnchanged

NextTrl ==
  \/ TrlEnter
  \/ TrlImport
  \/ TrlPatch
  \/ TrlLoad
  \/ TrlMove
  \/ TrlOtherCaller

SpecTrl == InitTrl /\ [][NextTrl]_vars

\* C29: when DPRNNService() finishes, by a return or by a raise, torch.load
\* is the original function again, and no later caller of torch.load gets
\* the patched version.
C29_LoadRestored ==
  /\ trl.pc \in {"returned", "raised"} => trl.torch_load = 0
  /\ trl.seen # "patched"

\* what the constructor does keep: a call that returns, or that raises
\* before line 55 or after line 60, leaves torch.load as it found it
RestoredUnlessLoadFails ==
  trl.pc \in {"returned", "raised"} /\ trl.err # "from_pretrained failed" =>
    trl.torch_load = trl.found

\* the /api/dsp/stft handler of the router answered 200
StftAnswered ==
  /\ http.pc = "responded"
  /\ http.app = "router"
  /\ http.path = RouterPrefix \o "/stft"
  /\ http.response.status = 200

\* compute_stft_frames on the request's signal and options
RequestFrames ==
  StftRun(StftCall(http.signal, http.window_size, http.hop_size,
                   http.fft_size)).frames

\* compute_spectrogram on the request's signal, sample rate and options
RequestSpectrogram ==
  SpectrogramReduce([SgramIdle EXCEPT !.sample_rate = http.sample_rate],
                    RequestFrames, http.hop_size, http.fft_size)

\* C30: the magnitudes, frequencies and times of an accepted STFT request
\* with include_magnitudes are those compute_spectrogram returns for the
\* same arguments, and the frames returned with include_frames are the
\* frames the magnitudes were taken from.
C30_HandlerMatchesSpectrogram ==
  StftAnswered =>
    LET body == http.response.body
    IN  /\ http.include_magnitudes =>
              /\ body.magnitudes = RequestSpectrogram.magnitudes
              /\ body.frequencies = RequestSpectrogram.frequencies
              /\ body.times = RequestSpectrogram.times
        /\ http.include_frames =>
              body.frames = ComplexMatrixToList(RequestFrames)
        /\ http.include_magnitudes /\ http.include_frames =>
              /\ DOMAIN body.magnitudes = DOMAIN body.frames
              /\ \A k \in DOMAIN body.magnitudes :
                   \A j \in DOMAIN body.magnitudes[k] :
                     body.magnitudes[k][j]
                       = Modulus(<<body.frames[k][j].re, body.frames[k][j].im>>)

C30_Witness ==
  /\ StftAnswered
  /\ http.include_magnitudes
  /\ http.include_frames
  /\ http.fft_size = 4
  /\ http.sample_rate = 3
  /\ Size(http.response.body.frames) >= 2
  /\ Size(http.response.body.frequencies) = 2
  /\ http.response.body.frequencies[1] = Rat(3, 4)
  /\ http.response.body.magnitudes[0][0] # Modulus(CZero)

====
